---- MODULE Spec2Model ----
(***************************************************************************)
(* The resilience layer of the LinkLibrary MCP server: the in-memory       *)
(* request cache (utils/cache.ts), the sliding-window rate limiter         *)
(* (utils/rate-limiter.ts) and the retrying API client                     *)
(* (services/api-client.ts).                                               *)
(*                                                                         *)
(* Time is the integer clock `now` (Date.now()), in abstract ticks; every  *)
(* duration of the program is scaled to a few ticks.                       *)
(***************************************************************************)
EXTENDS Integers, Sequences, FiniteSets, TLC

(***************************************************************************)
(* Bounds of the model                                                     *)
(***************************************************************************)
\* last instant at which the clock ticks by itself and requests are issued
MaxTime == 3
\* calls of ApiClient.request issued in one behaviour
MaxCalls == 3
\* calls issued in one behaviour of the fair specification
MaxFairCalls == 2
\* calls issued by the auth service in one behaviour
MaxAuthCalls == 2
\* calls issued by the tools of the server in one behaviour
MaxToolCalls == 4
\* config.rate_limit_requests: admissions per key and window
maxRequests == 2
\* config.rate_limit_window_ms
windowMs == 2
\* config.max_retries
maxRetries == 3
\* config.cache_max_size
maxSize == 2

(***************************************************************************)
(* Program constants                                                       *)
(***************************************************************************)
\* ApiClient.config.retryDelay (1000 ms is one tick)
retryDelay == 1
\* the ttl ApiClient.request passes to globalCache.set (300000 ms)
ApiCacheTtl == 3

\* the values config.cache_ttl_seconds * 1000 may take; the second is the
\* default, equal to the ttl hard-coded in ApiClient.request
ConfigTtls == {1, ApiCacheTtl}

\* concurrent callers of ApiClient.request
Callers == {"c1", "c2"}

\* JavaScript null, as returned by InMemoryCache.get on a miss
Null == "<null>"
\* response bodies; the empty string is falsy in JavaScript
Values == {"", "v1", "v2"}
Truthy(v) == v # Null /\ v # ""

Methods == {"GET", "POST"}
Urls == {"/links"}

(***************************************************************************)
(* Generic helpers                                                         *)
(***************************************************************************)
\* Map.set
Put(m, k, v) == [x \in (DOMAIN m) \cup {k} |-> IF x = k THEN v ELSE m[x]]
\* Map.delete
Remove(m, k) == [x \in (DOMAIN m) \ {k} |-> m[x]]
EmptyMap == [x \in {} |-> 0]

\* Array.indexOf, 0 when absent (the source's -1)
RECURSIVE IndexOfFrom(_, _, _)
IndexOfFrom(s, k, i) ==
  IF i > Len(s) THEN 0
  ELSE IF s[i] = k THEN i
  ELSE IndexOfFrom(s, k, i + 1)
IndexOf(s, k) == IndexOfFrom(s, k, 1)
\* Array.splice(index, 1)
Splice(s, i) == SubSeq(s, 1, i - 1) \o SubSeq(s, i + 1, Len(s))

RECURSIVE Pow2(_)
Pow2(n) == IF n <= 0 THEN 1 ELSE 2 * Pow2(n - 1)

(***************************************************************************)
(* RateLimiter (utils/rate-limiter.ts)                                     *)
(***************************************************************************)
\* variant: an admission exactly one window old still counts
FilterExpiredInclusive(entries, windowStart) ==
  SelectSeq(entries, LAMBDA e : e.timestamp >= windowStart)

\* entries.filter((entry) => entry.timestamp > windowStart)
FilterExpired(entries, windowStart) ==
  SelectSeq(entries, LAMBDA e : e.timestamp > windowStart)

\* entries.reduce((sum, entry) => sum + entry.count, 0)
RECURSIVE TotalRequests(_)
TotalRequests(entries) ==
  IF entries = <<>> THEN 0
  ELSE Head(entries).count + TotalRequests(Tail(entries))

\* this.requests.get(key) || []
EntriesOf(reqs, key) == IF key \in DOMAIN reqs THEN reqs[key] ELSE <<>>

\* variant: the limit itself is still admitted (<= for <)
IsAllowedOffByOne(reqs, key, t) ==
  LET windowStart == t - windowMs
      entries == FilterExpired(EntriesOf(reqs, key), windowStart)
      allowed == TotalRequests(entries) <= maxRequests
  IN  [allowed |-> allowed,
       requests |-> IF allowed
                    THEN Put(reqs, key,
                             Append(entries, [timestamp |-> t, count |-> 1]))
                    ELSE reqs]

\* RateLimiter.isAllowed: the decision and the records after the call
IsAllowed(reqs, key, t) ==
  LET windowStart == t - windowMs
      entries == FilterExpired(EntriesOf(reqs, key), windowStart)
      allowed == TotalRequests(entries) < maxRequests
  IN  [allowed |-> allowed,
       requests |-> IF allowed
                    THEN Put(reqs, key,
                             Append(entries, [timestamp |-> t, count |-> 1]))
                    ELSE reqs]

\* variant: the entries are counted without the filter
GetRemainingUnfiltered(reqs, key, t) ==
  LET left == maxRequests - TotalRequests(EntriesOf(reqs, key))
  IN  IF left > 0 THEN left ELSE 0

\* RateLimiter.getRemaining
GetRemaining(reqs, key, t) ==
  LET validEntries == FilterExpired(EntriesOf(reqs, key), t - windowMs)
      left == maxRequests - TotalRequests(validEntries)
  IN  IF left > 0 THEN left ELSE 0

\* RateLimiter.getResetTime: the oldest entry recorded, pruned or not
RECURSIVE OldestTimestamp(_)
OldestTimestamp(entries) ==
  IF Len(entries) = 1 THEN Head(entries).timestamp
  ELSE LET rest == OldestTimestamp(Tail(entries))
       IN  IF rest < Head(entries).timestamp THEN rest
           ELSE Head(entries).timestamp
GetResetTime(reqs, key, t) ==
  IF EntriesOf(reqs, key) = <<>> THEN t
  ELSE OldestTimestamp(EntriesOf(reqs, key)) + windowMs

\* RateLimiter.getInfo
GetInfo(reqs, key, t) ==
  [remaining |-> GetRemaining(reqs, key, t),
   resetTime |-> GetResetTime(reqs, key, t),
   limit |-> maxRequests, windowMs |-> windowMs]

\* variant: the records of every key are dropped
LimiterResetAll(reqs, key) == EmptyMap

\* RateLimiter.reset: this.requests.delete(key)
LimiterReset(reqs, key) == Remove(reqs, key)

\* RateLimiter.cleanupExpired: the records after the periodic sweep
LimiterCleanupExpired(reqs, t) ==
  LET valid(k) == FilterExpired(reqs[k], t - windowMs)
      kept == {k \in DOMAIN reqs : valid(k) # <<>>}
  IN  [k \in kept |-> valid(k)]

(***************************************************************************)
(* InMemoryCache (utils/cache.ts).  A cache state is the record            *)
(* [cache, accessOrder] of the two fields of the class.                    *)
(***************************************************************************)
\* now - entry.timestamp > entry.ttl
IsExpired(entry, t) == t - entry.timestamp > entry.ttl

\* InMemoryCache.delete
CacheDelete(cs, key) ==
  IF key \in DOMAIN cs.cache
  THEN LET index == IndexOf(cs.accessOrder, key)
       IN  [cache |-> Remove(cs.cache, key),
            accessOrder |-> IF index > 0 THEN Splice(cs.accessOrder, index)
                            ELSE cs.accessOrder]
  ELSE cs

\* variant: a hit leaves the access order as it was
UpdateAccessOrderKeep(cs, key) == cs

\* InMemoryCache.updateAccessOrder
UpdateAccessOrder(cs, key) ==
  LET index == IndexOf(cs.accessOrder, key)
      removed == IF index > 0 THEN Splice(cs.accessOrder, index)
                 ELSE cs.accessOrder
  IN  [cache |-> cs.cache, accessOrder |-> Append(removed, key)]

\* InMemoryCache.evictLRU: accessOrder.shift(), then `if (!oldestKey)
\* return`, which the empty string takes, then cache.delete(oldestKey)
EvictLRU(cs) ==
  IF cs.accessOrder = <<>> THEN cs
  ELSE LET oldestKey == Head(cs.accessOrder)
       IN  IF oldestKey = ""
           THEN [cache |-> cs.cache, accessOrder |-> Tail(cs.accessOrder)]
           ELSE [cache |-> Remove(cs.cache, oldestKey),
                 accessOrder |-> Tail(cs.accessOrder)]

\* variant: the old entry of the key is not deleted first
CacheSetNoDelete(cs, key, value, ttl, dflt, t) ==
  LET entryTtl == IF ttl # <<>> /\ ttl[1] # 0 THEN ttl[1] ELSE dflt
      entry == [data |-> value, timestamp |-> t, ttl |-> entryTtl]
      added == [cache |-> Put(cs.cache, key, entry),
                accessOrder |-> Append(cs.accessOrder, key)]
  IN  IF Cardinality(DOMAIN added.cache) > maxSize THEN EvictLRU(added)
      ELSE added

\* variant: nothing is evicted on overflow
CacheSetNoEvict(cs, key, value, ttl, dflt, t) ==
  LET entryTtl == IF ttl # <<>> /\ ttl[1] # 0 THEN ttl[1] ELSE dflt
      deleted == CacheDelete(cs, key)
      entry == [data |-> value, timestamp |-> t, ttl |-> entryTtl]
  IN  [cache |-> Put(deleted.cache, key, entry),
       accessOrder |-> Append(deleted.accessOrder, key)]

\* InMemoryCache.set; ttl is <<>> when the argument is omitted, <<n>> else
CacheSet(cs, key, value, ttl, dflt, t) ==
  LET entryTtl == IF ttl # <<>> /\ ttl[1] # 0 THEN ttl[1] ELSE dflt
      deleted == CacheDelete(cs, key)
      entry == [data |-> value, timestamp |-> t, ttl |-> entryTtl]
      added == [cache |-> Put(deleted.cache, key, entry),
                accessOrder |-> Append(deleted.accessOrder, key)]
  IN  IF Cardinality(DOMAIN added.cache) > maxSize THEN EvictLRU(added)
      ELSE added

\* InMemoryCache.get: the value returned (Null on a miss) and the state after
CacheGet(cs, key, t) ==
  IF key \notin DOMAIN cs.cache THEN [value |-> Null, cs |-> cs]
  ELSE IF IsExpired(cs.cache[key], t)
       THEN [value |-> Null, cs |-> CacheDelete(cs, key)]
       ELSE [value |-> cs.cache[key].data, cs |-> UpdateAccessOrder(cs, key)]

\* InMemoryCache.has
CacheHas(cs, key, t) ==
  IF key \notin DOMAIN cs.cache THEN [value |-> FALSE, cs |-> cs]
  ELSE IF IsExpired(cs.cache[key], t)
       THEN [value |-> FALSE, cs |-> CacheDelete(cs, key)]
       ELSE [value |-> TRUE, cs |-> cs]

\* InMemoryCache.cleanupExpired: delete(key) for every expired key
RECURSIVE DeleteAll(_, _)
DeleteAll(cs, keys) ==
  IF keys = {} THEN cs
  ELSE LET k == CHOOSE x \in keys : TRUE
       IN  DeleteAll(CacheDelete(cs, k), keys \ {k})
CacheCleanupExpired(cs, t) ==
  DeleteAll(cs, {k \in DOMAIN cs.cache : IsExpired(cs.cache[k], t)})

\* String.includes
Includes(s, pattern) ==
  \E i \in 1..(Len(s) - Len(pattern) + 1) :
    SubSeq(s, i, i + Len(pattern) - 1) = pattern

\* variant: only the keys that start with the pattern match
InvalidatePatternPrefix(cs, pattern) ==
  LET matchingKeys ==
        {key \in DOMAIN cs.cache :
           Len(pattern) <= Len(key) /\ SubSeq(key, 1, Len(pattern)) = pattern}
  IN  [count |-> Cardinality(matchingKeys),
       cs |-> DeleteAll(cs, matchingKeys)]

\* CacheUtils.invalidatePattern: the count returned and the state after
InvalidatePattern(cs, pattern) ==
  LET matchingKeys == {key \in DOMAIN cs.cache : Includes(key, pattern)}
  IN  [count |-> Cardinality(matchingKeys),
       cs |-> DeleteAll(cs, matchingKeys)]

(***************************************************************************)
(* CacheUtils.generateKey and the keys ApiClient.request builds            *)
(***************************************************************************)
\* config.params: undefined, or an object given as its <<name, value>> pairs
NoParams == [defined |-> FALSE, pairs |-> <<>>]

\* JSON.stringify of an object of string values
RECURSIVE StringifyPairs(_)
StringifyPairs(pairs) ==
  IF pairs = <<>> THEN ""
  ELSE "\"" \o Head(pairs)[1] \o "\":\"" \o Head(pairs)[2] \o "\""
       \o (IF Len(pairs) > 1 THEN "," ELSE "") \o StringifyPairs(Tail(pairs))
\* JSON.stringify(undefined) is undefined, which Array.join renders as ""
StringifyParams(params) ==
  IF params.defined THEN "{" \o StringifyPairs(params.pairs) \o "}" ELSE ""

\* Array.join(":")
RECURSIVE Join(_)
Join(parts) ==
  IF parts = <<>> THEN ""
  ELSE IF Len(parts) = 1 THEN Head(parts)
  ELSE Head(parts) \o ":" \o Join(Tail(parts))

\* CacheUtils.generateKey("api", config.method, config.url, config.params)
GenerateKey(config) ==
  Join(<<"api", config.method, config.url, StringifyParams(config.params)>>)

\* `api:${config.method}:${config.url}`
RateLimitKey(config) == "api:" \o config.method \o ":" \o config.url

\* String.toLowerCase on the method names in use
ToLowerCase(m) ==
  CASE m = "GET" -> "get"
    [] m = "POST" -> "post"
    [] OTHER -> m
\* config.method?.toLowerCase() === "get"
IsGet(config) == ToLowerCase(config.method) = "get"

\* the request descriptors the callers issue
Configs == [method : Methods, url : Urls, params : {NoParams}]

(***************************************************************************)
(* Transport outcomes and their classification                             *)
(***************************************************************************)
Statuses == {404, 429, 503}
\* what axios rejects with: a response carrying a status, or an error code
\* and no response (time-out, DNS failure, connection refused)
RawErrors ==
  {[response |-> [status |-> s]] : s \in Statuses}
    \cup {[code |-> c] : c \in {"ECONNABORTED"}}
Outcomes ==
  {[ok |-> TRUE, data |-> v] : v \in Values}
    \cup {[ok |-> FALSE, error |-> e] : e \in RawErrors}

HasResponse(error) == "response" \in DOMAIN error
HasCode(error) == "code" \in DOMAIN error

\* the error classes of types.ts: `class` is the constructor (instanceof),
\* `code` the third constructor argument (undefined is "")
LinkLibraryError(message, statusCode) ==
  [class |-> "LinkLibraryError", statusCode |-> statusCode, code |-> "",
   message |-> message]
AuthenticationError(message) ==
  [class |-> "AuthenticationError", statusCode |-> 401, code |-> "AUTH_ERROR",
   message |-> message]
ValidationError(message) ==
  [class |-> "ValidationError", statusCode |-> 400,
   code |-> "VALIDATION_ERROR", message |-> message]
RateLimitError(message) ==
  [class |-> "RateLimitError", statusCode |-> 429,
   code |-> "RATE_LIMIT_ERROR", message |-> message]

\* ApiClient.handleApiError, for a response without data.message
HandleApiError(error) ==
  IF HasResponse(error)
  THEN LET status == error.response.status
       IN  CASE status = 401 -> AuthenticationError("Authentication failed")
             [] status = 400 -> ValidationError("Invalid request")
             [] status = 429 -> RateLimitError("Rate limit exceeded")
             [] status = 500 -> LinkLibraryError("Internal server error", 500)
             [] OTHER -> LinkLibraryError("HTTP " \o ToString(status)
                                            \o " error", status)
  ELSE IF HasCode(error) /\ error.code = "ECONNABORTED"
       THEN LinkLibraryError("Request timeout", 408)
  ELSE IF HasCode(error) /\ error.code = "ENOTFOUND"
       THEN LinkLibraryError("Service unavailable", 503)
  ELSE LinkLibraryError("Unknown error", 500)

\* ApiClient.shouldRetry; error.response?.status is undefined, and every
\* comparison with it false, when the error has no response property
ShouldRetry(error) ==
  IF HasResponse(error)
  THEN LET status == error.response.status
       IN  IF status >= 400 /\ status < 500 THEN status = 429
           ELSE status >= 500
  ELSE TRUE

\* the response interceptor of createAxiosInstance: what client.request
\* rejects with
InterceptResponseError(error) == HandleApiError(error)

\* variant: the exponent is the attempt number itself
BackoffDelayFromAttempt(n) == retryDelay * Pow2(n)

\* this.retryConfig.retryDelay * Math.pow(2, attempt - 1)
BackoffDelay(n) == retryDelay * Pow2(n - 1)

\* the error ApiClient.request throws on a local rejection
LocalRateLimitError(config) ==
  RateLimitError("Rate limit exceeded for " \o config.method \o " "
                   \o config.url \o ". Limit: " \o ToString(maxRequests)
                   \o " requests per " \o ToString(windowMs) \o "ms.")
NoError == [class |-> "none", statusCode |-> 0, code |-> "", message |-> ""]

(***************************************************************************)
(* State                                                                   *)
(***************************************************************************)
VARIABLES
  now,          \* Date.now()
  defaultTtl,   \* InMemoryCache.defaultTtl, from getCacheConfig().ttl
  cache,        \* InMemoryCache.cache: key -> [data, timestamp, ttl]
  accessOrder,  \* InMemoryCache.accessOrder
  requests,     \* RateLimiter.requests: key -> entries [timestamp, count]
  pc,           \* where each caller's ApiClient.request stands
  config,       \* the descriptor of the call
  attempt,      \* makeRequestWithRetry's attempt
  wakeAt,       \* when the pending sleep(delay) is due
  result,       \* how the call settled: resolved with a value, or rejected
  dispatches,   \* history: client.request calls made by the call
  delays,       \* history: the delays the call slept, in order
  cacheGets,    \* history: globalCache.get calls made by the call
  cacheSets,    \* history: globalCache.set calls made by the call
  lastOutcome,  \* history: what the transport answered to the last dispatch
  transient,    \* history: every failed attempt so far was a 5xx, a 429,
                \* a time-out or without response
  hitAge,       \* history: age of the entry the call was served from, or -1
  allowed,      \* history: what isAllowed answered to the call
  admitted,     \* history: key -> timestamps of the admitted isAllowed calls
                \* that are at most one window old
  calls,        \* history: number of ApiClient.request calls so far
  lastCall,     \* history: the last step of a component driven directly
  recency,      \* history: the stored keys of the cache driven directly,
                \* least recently accessed (set, or get hit) first
  currentToken,       \* ApiClient.currentToken
  currentUser,        \* AuthService.currentUser
  tokenRefreshTimer,  \* AuthService.tokenRefreshTimer: a timer handle
  pendingTimers,      \* the setTimeout handles armed and not yet fired or
                      \* cleared
  op,                 \* the service or tool call awaiting its API call
  lastOp,             \* history: the last service or tool call completed
  cacheCleanupInterval,    \* InMemoryCache.cleanupInterval is armed
  limiterCleanupInterval,  \* RateLimiter.cleanupInterval is armed
  carried,            \* history: the Authorization header each dispatch of
                      \* the call went out with, in order
  twin                \* history: the cache the same calls leave when no
                      \* sweep runs

callVars == <<pc, config, attempt, wakeAt, result, dispatches, delays,
              cacheGets, cacheSets, lastOutcome, transient, hitAge, allowed,
              calls, carried>>
timerVars == <<cacheCleanupInterval, limiterCleanupInterval>>
harnessVars == <<lastCall, recency, twin>>
authVars == <<currentToken, currentUser, tokenRefreshTimer, pendingTimers,
              op, lastOp>>
vars == <<now, defaultTtl, cache, accessOrder, requests, pc, config, attempt,
          wakeAt, result, dispatches, delays, cacheGets, cacheSets,
          lastOutcome, transient, hitAge, allowed, admitted, calls, lastCall,
          recency, currentToken, currentUser, tokenRefreshTimer,
          pendingTimers, op, lastOp, cacheCleanupInterval,
          limiterCleanupInterval, carried, twin>>

CacheState == [cache |-> cache, accessOrder |-> accessOrder]

NoConfig == [method |-> "", url |-> "", params |-> NoParams]
NoOutcome == [ok |-> FALSE, error |-> [code |-> "none"]]
Pending == [status |-> "pending", value |-> Null, error |-> NoError]
Resolved(v) == [status |-> "resolved", value |-> v, error |-> NoError]
Rejected(e) == [status |-> "rejected", value |-> Null, error |-> e]
NoCall == [op |-> "none"]
NoOp == [name |-> "none"]

\* the classes of failure the retry policy is meant for: a 5xx or 429
\* response, or no response at all (time-out, network failure)
IsTransient(error) ==
  IF HasResponse(error)
  THEN error.response.status >= 500 \/ error.response.status = 429
  ELSE TRUE

\* the admissions of the history that are younger than one window at time t
Recent(adm, t) ==
  LET young(k) == SelectSeq(adm[k], LAMBDA ts : ts > t - windowMs)
  IN  [k \in {x \in DOMAIN adm : young(x) # <<>>} |-> young(k)]

\* the state after construction, but for the token of the configuration
ClientInit ==
  /\ now = 0
  /\ defaultTtl \in ConfigTtls
  /\ requests = EmptyMap
  /\ pc = [c \in Callers |-> "idle"]
  /\ config = [c \in Callers |-> NoConfig]
  /\ attempt = [c \in Callers |-> 0]
  /\ wakeAt = [c \in Callers |-> 0]
  /\ result = [c \in Callers |-> Pending]
  /\ dispatches = [c \in Callers |-> 0]
  /\ delays = [c \in Callers |-> <<>>]
  /\ cacheGets = [c \in Callers |-> 0]
  /\ cacheSets = [c \in Callers |-> 0]
  /\ lastOutcome = [c \in Callers |-> NoOutcome]
  /\ transient = [c \in Callers |-> TRUE]
  /\ hitAge = [c \in Callers |-> -1]
  /\ allowed = [c \in Callers |-> TRUE]
  /\ admitted = EmptyMap
  /\ calls = 0
  /\ lastCall = NoCall
  /\ recency = <<>>
  /\ currentUser = Null
  /\ tokenRefreshTimer = Null
  /\ pendingTimers = {}
  /\ op = NoOp
  /\ lastOp = NoOp
  /\ cacheCleanupInterval = TRUE
  /\ limiterCleanupInterval = TRUE
  /\ carried = [c \in Callers |-> <<>>]
  /\ twin = [cache |-> EmptyMap, accessOrder |-> <<>>]

\* no LL_TOKEN is configured
Init ==
  /\ ClientInit
  /\ cache = EmptyMap
  /\ accessOrder = <<>>
  /\ currentToken = Null

\* the state after construction with the default CACHE_TTL_SECONDS
FixedInit == Init /\ defaultTtl = ApiCacheTtl

(***************************************************************************)
(* ApiClient.request                                                       *)
(***************************************************************************)
\* variant: a request served from the cache is not counted by the limiter
RequestStartHitFree(reqs, cs, cfg, t) ==
  LET adm == IsAllowed(reqs, RateLimitKey(cfg), t)
      got == CacheGet(cs, GenerateKey(cfg), t)
  IN  IF ~adm.allowed
      THEN [next |-> "rejected", requests |-> adm.requests, cs |-> cs,
            value |-> Null, gets |-> 0]
      ELSE IF IsGet(cfg) /\ Truthy(got.value)
      THEN [next |-> "hit", requests |-> reqs, cs |-> got.cs,
            value |-> got.value, gets |-> 1]
      ELSE IF IsGet(cfg)
      THEN [next |-> "dispatch", requests |-> adm.requests, cs |-> got.cs,
            value |-> Null, gets |-> 1]
      ELSE [next |-> "dispatch", requests |-> adm.requests, cs |-> cs,
            value |-> Null, gets |-> 0]

\* variant: the cache is consulted before the admission
RequestStartCacheFirst(reqs, cs, cfg, t) ==
  LET adm == IsAllowed(reqs, RateLimitKey(cfg), t)
      got == CacheGet(cs, GenerateKey(cfg), t)
  IN  IF IsGet(cfg) /\ Truthy(got.value)
      THEN [next |-> "hit", requests |-> reqs, cs |-> got.cs,
            value |-> got.value, gets |-> 1]
      ELSE IF ~adm.allowed
      THEN [next |-> "rejected", requests |-> adm.requests,
            cs |-> IF IsGet(cfg) THEN got.cs ELSE cs,
            value |-> Null, gets |-> IF IsGet(cfg) THEN 1 ELSE 0]
      ELSE [next |-> "dispatch", requests |-> adm.requests,
            cs |-> IF IsGet(cfg) THEN got.cs ELSE cs,
            value |-> Null, gets |-> IF IsGet(cfg) THEN 1 ELSE 0]

\* variant: a cache hit is looked up but the request is dispatched anyway
RequestStartNoEarlyReturn(reqs, cs, cfg, t) ==
  LET adm == IsAllowed(reqs, RateLimitKey(cfg), t)
      got == CacheGet(cs, GenerateKey(cfg), t)
  IN  IF ~adm.allowed
      THEN [next |-> "rejected", requests |-> adm.requests, cs |-> cs,
            value |-> Null, gets |-> 0]
      ELSE IF IsGet(cfg)
      THEN [next |-> "dispatch", requests |-> adm.requests, cs |-> got.cs,
            value |-> Null, gets |-> 1]
      ELSE [next |-> "dispatch", requests |-> adm.requests, cs |-> cs,
            value |-> Null, gets |-> 0]

\* ApiClient.request up to its first await: the admission, the cache lookup
\* of a GET, and the first dispatch.  `next` is "rejected", "hit" or
\* "dispatch".
RequestStart(reqs, cs, cfg, t) ==
  LET adm == IsAllowed(reqs, RateLimitKey(cfg), t)
      got == CacheGet(cs, GenerateKey(cfg), t)
  IN  IF ~adm.allowed
      THEN [next |-> "rejected", requests |-> adm.requests, cs |-> cs,
            value |-> Null, gets |-> 0]
      ELSE IF IsGet(cfg) /\ Truthy(got.value)
      THEN [next |-> "hit", requests |-> adm.requests, cs |-> got.cs,
            value |-> got.value, gets |-> 1]
      ELSE IF IsGet(cfg)
      THEN [next |-> "dispatch", requests |-> adm.requests, cs |-> got.cs,
            value |-> Null, gets |-> 1]
      ELSE [next |-> "dispatch", requests |-> adm.requests, cs |-> cs,
            value |-> Null, gets |-> 0]

\* variant: the response is stored whatever the method
RequestStoreAnyMethod(cs, cfg, response, dflt, t) ==
  IF Truthy(response)
  THEN CacheSet(cs, GenerateKey(cfg), response, <<ApiCacheTtl>>, dflt, t)
  ELSE cs

\* ApiClient.request after makeRequestWithRetry returned `response`: the
\* cache state after "Cache GET responses"
RequestStore(cs, cfg, response, dflt, t) ==
  IF IsGet(cfg) /\ Truthy(response)
  THEN CacheSet(cs, GenerateKey(cfg), response, <<ApiCacheTtl>>, dflt, t)
  ELSE cs

\* variant: one retry more than configured
WillRetryOnceMore(n, error) == n <= maxRetries + 1 /\ ShouldRetry(error)

\* the catch block of makeRequestWithRetry: retry after a delay, or rethrow
WillRetry(n, error) == n <= maxRetries /\ ShouldRetry(error)

NoHeader == "<none>"
\* variant: without a token the header of the attempt before stays
AuthorizationKept(sent, token) ==
  IF token # Null THEN "Bearer " \o token
  ELSE IF sent # <<>> THEN sent[Len(sent)] ELSE NoHeader

\* the request interceptor: the Authorization header of an attempt, given
\* the headers of the attempts before and the token at this moment; axios
\* hands the interceptor a fresh merge of the caller's config
Authorization(sent, token) ==
  IF token # Null THEN "Bearer " \o token ELSE NoHeader

\* a caller invokes apiClient.request(cfg)
RequestCall(c, cfg) ==
  /\ pc[c] = "idle"
  /\ now <= MaxTime
  /\ calls < MaxCalls
  /\ calls' = calls + 1
  /\ LET key == RateLimitKey(cfg)
         st == RequestStart(requests, CacheState, cfg, now)
     IN  /\ requests' = st.requests
         /\ admitted' = IF st.next = "rejected" THEN admitted
                        ELSE Put(admitted, key,
                                 Append(EntriesOf(admitted, key), now))
         /\ cache' = st.cs.cache
         /\ accessOrder' = st.cs.accessOrder
         /\ config' = [config EXCEPT ![c] = cfg]
         /\ cacheGets' = [cacheGets EXCEPT ![c] = st.gets]
         /\ allowed' = [allowed EXCEPT ![c] = st.next # "rejected"]
         /\ hitAge' = [hitAge EXCEPT ![c] =
                         IF st.next = "hit"
                         THEN now - cache[GenerateKey(cfg)].timestamp ELSE -1]
         /\ pc' = [pc EXCEPT ![c] =
                     IF st.next = "dispatch" THEN "dispatching" ELSE "done"]
         /\ attempt' = [attempt EXCEPT ![c] =
                          IF st.next = "dispatch" THEN 1 ELSE 0]
         /\ dispatches' = [dispatches EXCEPT ![c] =
                             IF st.next = "dispatch" THEN 1 ELSE 0]
         /\ result' = [result EXCEPT ![c] =
                         CASE st.next = "rejected" ->
                                Rejected(LocalRateLimitError(cfg))
                           [] st.next = "hit" -> Resolved(st.value)
                           [] OTHER -> Pending]
         /\ carried' = [carried EXCEPT ![c] =
                          IF st.next = "dispatch"
                          THEN <<Authorization(<<>>, currentToken)>>
                          ELSE <<>>]
  /\ UNCHANGED <<now, defaultTtl, wakeAt, delays, cacheSets, lastOutcome,
                 transient>>
  /\ UNCHANGED timerVars
Request(c, cfg) ==
  RequestCall(c, cfg) /\ UNCHANGED harnessVars /\ UNCHANGED authVars

\* the transport answers the pending dispatch of c with outcome o
RespondCall(c, o) ==
  /\ pc[c] = "dispatching"
  /\ lastOutcome' = [lastOutcome EXCEPT ![c] = o]
  /\ IF o.ok
     THEN LET cs == RequestStore(CacheState, config[c], o.data, defaultTtl, now)
          IN  /\ cache' = cs.cache
              /\ accessOrder' = cs.accessOrder
              /\ cacheSets' = [cacheSets EXCEPT ![c] =
                                 IF IsGet(config[c]) /\ Truthy(o.data)
                                 THEN 1 ELSE 0]
              /\ result' = [result EXCEPT ![c] = Resolved(o.data)]
              /\ pc' = [pc EXCEPT ![c] = "done"]
              /\ UNCHANGED <<wakeAt, delays, transient>>
     ELSE LET error == InterceptResponseError(o.error)
          IN  /\ transient' = [transient EXCEPT ![c] = @ /\ IsTransient(o.error)]
              /\ IF WillRetry(attempt[c], error)
                 THEN /\ pc' = [pc EXCEPT ![c] = "sleeping"]
                      /\ wakeAt' = [wakeAt EXCEPT ![c] =
                                      now + BackoffDelay(attempt[c])]
                      /\ delays' = [delays EXCEPT ![c] =
                                      Append(@, BackoffDelay(attempt[c]))]
                      /\ UNCHANGED result
                 ELSE /\ pc' = [pc EXCEPT ![c] = "done"]
                      /\ result' = [result EXCEPT ![c] = Rejected(error)]
                      /\ UNCHANGED <<wakeAt, delays>>
              /\ UNCHANGED <<cache, accessOrder, cacheSets>>
  /\ UNCHANGED <<now, defaultTtl, requests, admitted, calls, config, attempt,
                 dispatches, cacheGets, hitAge, allowed, carried>>
  /\ UNCHANGED timerVars
Respond(c, o) ==
  RespondCall(c, o) /\ UNCHANGED harnessVars /\ UNCHANGED authVars

\* the timer of sleep(delay) fires, not before it is due, and
\* makeRequestWithRetry dispatches again with attempt + 1
WakeCall(c) ==
  /\ pc[c] = "sleeping"
  /\ now' = IF now < wakeAt[c] THEN wakeAt[c] ELSE now
  /\ admitted' = Recent(admitted, now')
  /\ pc' = [pc EXCEPT ![c] = "dispatching"]
  /\ attempt' = [attempt EXCEPT ![c] = @ + 1]
  /\ dispatches' = [dispatches EXCEPT ![c] = @ + 1]
  /\ lastOutcome' = [lastOutcome EXCEPT ![c] = NoOutcome]
  /\ carried' = [carried EXCEPT ![c] =
                   Append(@, Authorization(@, currentToken))]
  /\ UNCHANGED <<defaultTtl, cache, accessOrder, requests, calls, config,
                 wakeAt, result, delays, cacheGets, cacheSets, transient,
                 hitAge, allowed>>
  /\ UNCHANGED timerVars
Wake(c) ==
  WakeCall(c) /\ UNCHANGED harnessVars /\ UNCHANGED authVars

\* the caller has taken the result; it may call again
TakeResult(c) ==
  /\ pc[c] = "done"
  /\ pc' = [pc EXCEPT ![c] = "idle"]
  /\ config' = [config EXCEPT ![c] = NoConfig]
  /\ attempt' = [attempt EXCEPT ![c] = 0]
  /\ wakeAt' = [wakeAt EXCEPT ![c] = 0]
  /\ result' = [result EXCEPT ![c] = Pending]
  /\ dispatches' = [dispatches EXCEPT ![c] = 0]
  /\ delays' = [delays EXCEPT ![c] = <<>>]
  /\ cacheGets' = [cacheGets EXCEPT ![c] = 0]
  /\ cacheSets' = [cacheSets EXCEPT ![c] = 0]
  /\ lastOutcome' = [lastOutcome EXCEPT ![c] = NoOutcome]
  /\ transient' = [transient EXCEPT ![c] = TRUE]
  /\ hitAge' = [hitAge EXCEPT ![c] = -1]
  /\ allowed' = [allowed EXCEPT ![c] = TRUE]
  /\ carried' = [carried EXCEPT ![c] = <<>>]
  /\ UNCHANGED calls
  /\ UNCHANGED timerVars
ReturnCall(c) ==
  /\ TakeResult(c)
  /\ UNCHANGED <<now, defaultTtl, cache, accessOrder, requests, admitted>>
Return(c) ==
  ReturnCall(c) /\ UNCHANGED harnessVars /\ UNCHANGED authVars

\* time passes
Elapse ==
  /\ now < MaxTime
  /\ now' = now + 1
  /\ admitted' = Recent(admitted, now')
  /\ UNCHANGED <<defaultTtl, cache, accessOrder, requests>>
  /\ UNCHANGED callVars
  /\ UNCHANGED timerVars
Tick == Elapse /\ UNCHANGED harnessVars /\ UNCHANGED authVars

\* the interval timer of RateLimiter.startCleanupInterval fires
LimiterTimer ==
  /\ limiterCleanupInterval
  /\ requests' = LimiterCleanupExpired(requests, now)
  /\ UNCHANGED <<now, defaultTtl, cache, accessOrder, admitted>>
  /\ UNCHANGED callVars
  /\ UNCHANGED timerVars
LimiterSweep ==
  LimiterTimer /\ UNCHANGED harnessVars /\ UNCHANGED authVars

\* the interval timer of InMemoryCache.startCleanupInterval fires
CacheTimer ==
  /\ cacheCleanupInterval
  /\ LET cs == CacheCleanupExpired(CacheState, now)
     IN  /\ cache' = cs.cache
         /\ accessOrder' = cs.accessOrder
  /\ UNCHANGED <<now, defaultTtl, requests, admitted>>
  /\ UNCHANGED callVars
  /\ UNCHANGED timerVars
CacheSweep == CacheTimer /\ UNCHANGED harnessVars /\ UNCHANGED authVars

\* One caller issues its calls one after the other; the transport answers
\* with any outcome.
Next ==
  \/ \E cfg \in Configs : Request("c1", cfg)
  \/ \E o \in Outcomes : Respond("c1", o)
  \/ Wake("c1")
  \/ Return("c1")
  \/ Tick
  \/ LimiterSweep
  \/ CacheSweep

Spec == Init /\ [][Next]_vars

\* The same steps with fewer calls: the liveness check walks this graph.
FairNext ==
  \/ \E cfg \in Configs : calls < MaxFairCalls /\ Request("c1", cfg)
  \/ \E o \in Outcomes : Respond("c1", o)
  \/ Wake("c1")
  \/ Return("c1")
  \/ Tick
  \/ LimiterSweep
  \/ CacheSweep

\* Every dispatch is answered and every backoff timer fires.
FairSpec ==
  /\ Init
  /\ [][FairNext]_vars
  /\ WF_vars(\E o \in Outcomes : Respond("c1", o))
  /\ WF_vars(Wake("c1"))

\* Several callers have requests in flight at once; the transport answers
\* every dispatch, with one of two bodies.
ConcOutcomes == {[ok |-> TRUE, data |-> v] : v \in {"v1", "v2"}}
ConcNext ==
  \/ \E c \in Callers, cfg \in Configs : Request(c, cfg)
  \/ \E c \in Callers, o \in ConcOutcomes : Respond(c, o)
  \/ \E c \in Callers : Return(c)
  \/ Tick
  \/ LimiterSweep

ConcSpec == FixedInit /\ [][ConcNext]_vars

(***************************************************************************)
(* The limiter driven directly: calls of globalRateLimiter.isAllowed, the  *)
(* clock and the sweep timer.  lastCall describes the step just taken.     *)
(***************************************************************************)
LimiterKeys == {RateLimitKey(cfg) : cfg \in Configs}

DirectIsAllowed(key) ==
  /\ LET adm == IsAllowed(requests, key, now)
     IN  /\ requests' = adm.requests
         /\ admitted' = IF adm.allowed
                        THEN Put(admitted, key,
                                 Append(EntriesOf(admitted, key), now))
                        ELSE admitted
         /\ lastCall' = [op |-> "isAllowed", key |-> key, at |-> now,
                         ret |-> adm.allowed,
                         earlier |-> Len(EntriesOf(admitted, key)),
                         before |-> EntriesOf(requests, key),
                         after |-> EntriesOf(adm.requests, key)]
  /\ UNCHANGED <<now, defaultTtl, cache, accessOrder>>
  /\ UNCHANGED callVars
  /\ UNCHANGED timerVars
  /\ UNCHANGED <<recency, twin>>
  /\ UNCHANGED authVars

DirectTick ==
  /\ Elapse
  /\ lastCall' = [op |-> "tick"]
  /\ UNCHANGED <<recency, twin>>
  /\ UNCHANGED authVars
DirectLimiterSweep ==
  /\ LimiterTimer
  /\ lastCall' = [op |-> "sweep"]
  /\ UNCHANGED <<recency, twin>>
  /\ UNCHANGED authVars

LimiterNext ==
  \/ \E key \in LimiterKeys : DirectIsAllowed(key)
  \/ DirectTick
  \/ DirectLimiterSweep

LimiterSpec == FixedInit /\ [][LimiterNext]_vars

\* globalRateLimiter.getInfo(key); admittedAt are the times of the
\* admissions of the key since its last reset that the window still holds
DirectGetInfo(key) ==
  /\ lastCall' = [op |-> "getInfo", key |-> key, at |-> now,
                  ret |-> GetInfo(requests, key, now),
                  admittedAt |-> EntriesOf(admitted, key)]
  /\ UNCHANGED <<now, defaultTtl, cache, accessOrder, requests, admitted>>
  /\ UNCHANGED callVars
  /\ UNCHANGED timerVars
  /\ UNCHANGED <<recency, twin>>
  /\ UNCHANGED authVars

\* globalRateLimiter.reset(key)
DirectReset(key) ==
  /\ requests' = LimiterReset(requests, key)
  /\ admitted' = Remove(admitted, key)
  /\ lastCall' = [op |-> "reset", key |-> key, at |-> now]
  /\ UNCHANGED <<now, defaultTtl, cache, accessOrder>>
  /\ UNCHANGED callVars
  /\ UNCHANGED timerVars
  /\ UNCHANGED <<recency, twin>>
  /\ UNCHANGED authVars

InfoNext ==
  \/ \E key \in LimiterKeys : DirectIsAllowed(key)
  \/ \E key \in LimiterKeys : DirectGetInfo(key)
  \/ \E key \in LimiterKeys : DirectReset(key)
  \/ DirectTick
  \/ DirectLimiterSweep

InfoSpec == FixedInit /\ [][InfoNext]_vars

(***************************************************************************)
(* The cache driven directly: calls of globalCache.set and globalCache.get *)
(* with any key, value and ttl, the clock and the sweep timer.             *)
(***************************************************************************)
\* one key more than the cache can hold
CacheKeys == {"k" \o ToString(i) : i \in 1..(maxSize + 1)}
CacheValues == {"", "v1"}
\* the ttl argument: omitted, or a number
TtlArgs == {<<>>, <<-1>>, <<0>>, <<1>>, <<2>>}
NoEntry == [data |-> Null, timestamp |-> 0, ttl |-> 0]

DirectSet(key, value, ttl) ==
  /\ LET cs == CacheSet(CacheState, key, value, ttl, defaultTtl, now)
     IN  /\ cache' = cs.cache
         /\ accessOrder' = cs.accessOrder
         /\ lastCall' = [op |-> "set", key |-> key, at |-> now,
                         value |-> value, ttl |-> ttl,
                         stored |-> key \in DOMAIN cs.cache,
                         entry |-> IF key \in DOMAIN cs.cache
                                   THEN cs.cache[key] ELSE NoEntry]
  /\ UNCHANGED <<now, defaultTtl, requests, admitted>>
  /\ UNCHANGED callVars
  /\ UNCHANGED timerVars
  /\ UNCHANGED <<recency, twin>>
  /\ UNCHANGED authVars

DirectGet(key) ==
  /\ LET got == CacheGet(CacheState, key, now)
     IN  /\ cache' = got.cs.cache
         /\ accessOrder' = got.cs.accessOrder
         /\ lastCall' = [op |-> "get", key |-> key, at |-> now,
                         ret |-> got.value,
                         afterSet |-> lastCall.op = "set" /\ lastCall.key = key,
                         setTtl |-> IF lastCall.op = "set" /\ lastCall.key = key
                                    THEN lastCall.ttl ELSE <<>>,
                         had |-> key \in DOMAIN cache,
                         entry |-> IF key \in DOMAIN cache
                                   THEN cache[key] ELSE NoEntry,
                         stored |-> key \in DOMAIN got.cs.cache]
  /\ UNCHANGED <<now, defaultTtl, requests, admitted>>
  /\ UNCHANGED callVars
  /\ UNCHANGED timerVars
  /\ UNCHANGED <<recency, twin>>
  /\ UNCHANGED authVars

DirectCacheSweep ==
  /\ CacheTimer
  /\ lastCall' = [op |-> "sweep"]
  /\ UNCHANGED <<recency, twin>>
  /\ UNCHANGED authVars

CacheNext ==
  \/ \E key \in CacheKeys, value \in CacheValues, ttl \in TtlArgs :
       DirectSet(key, value, ttl)
  \/ \E key \in CacheKeys : DirectGet(key)
  \/ DirectTick
  \/ DirectCacheSweep

CacheSpec == Init /\ [][CacheNext]_vars

(***************************************************************************)
(* The cache driven through all its operations (set, get, has, delete and  *)
(* the sweep), with the recency of the stored keys kept as history.        *)
(***************************************************************************)
StoreValues == {"v1"}
StoreTtls == {<<1>>}

\* key becomes the most recently accessed
Touch(rec, key) == Append(SelectSeq(rec, LAMBDA k : k # key), key)
\* only the keys still stored keep a place
Forget(rec, kept) == SelectSeq(rec, LAMBDA k : k \in kept)
StampOf(key) == IF key \in DOMAIN cache THEN cache[key].timestamp ELSE -1

StoreFrame ==
  /\ UNCHANGED <<now, defaultTtl, requests, admitted, twin>>
  /\ UNCHANGED callVars
  /\ UNCHANGED timerVars
  /\ UNCHANGED authVars

StoreSet(key, value, ttl) ==
  /\ LET cs == CacheSet(CacheState, key, value, ttl, defaultTtl, now)
         lru == IF recency = <<>> THEN Null ELSE Head(recency)
     IN  /\ cache' = cs.cache
         /\ accessOrder' = cs.accessOrder
         /\ recency' = Forget(Touch(recency, key), DOMAIN cs.cache)
         /\ lastCall' = [op |-> "set", key |-> key,
                         keysBefore |-> DOMAIN cache,
                         keysAfter |-> DOMAIN cs.cache,
                         lru |-> lru, lruStamp |-> StampOf(lru)]
  /\ StoreFrame

StoreGet(key) ==
  /\ LET got == CacheGet(CacheState, key, now)
         hit == key \in DOMAIN got.cs.cache
     IN  /\ cache' = got.cs.cache
         /\ accessOrder' = got.cs.accessOrder
         /\ recency' = IF hit THEN Touch(recency, key)
                       ELSE Forget(recency, DOMAIN got.cs.cache)
         /\ lastCall' = [op |-> "get", key |-> key, hit |-> hit,
                         wasLru |-> recency # <<>> /\ Head(recency) = key]
  /\ StoreFrame

StoreHas(key) ==
  /\ LET has == CacheHas(CacheState, key, now)
     IN  /\ cache' = has.cs.cache
         /\ accessOrder' = has.cs.accessOrder
         /\ recency' = Forget(recency, DOMAIN has.cs.cache)
         /\ lastCall' = [op |-> "has", key |-> key, ret |-> has.value]
  /\ StoreFrame

StoreDelete(key) ==
  /\ LET cs == CacheDelete(CacheState, key)
     IN  /\ cache' = cs.cache
         /\ accessOrder' = cs.accessOrder
         /\ recency' = Forget(recency, DOMAIN cs.cache)
         /\ lastCall' = [op |-> "delete", key |-> key,
                         ret |-> key \in DOMAIN cache]
  /\ StoreFrame

StoreSweep ==
  /\ LET cs == CacheCleanupExpired(CacheState, now)
     IN  /\ cache' = cs.cache
         /\ accessOrder' = cs.accessOrder
         /\ recency' = Forget(recency, DOMAIN cs.cache)
         /\ lastCall' = [op |-> "sweep"]
  /\ StoreFrame

StoreNext ==
  \/ \E key \in CacheKeys, value \in StoreValues, ttl \in StoreTtls :
       StoreSet(key, value, ttl)
  \/ \E key \in CacheKeys : StoreGet(key)
  \/ \E key \in CacheKeys : StoreHas(key)
  \/ \E key \in CacheKeys : StoreDelete(key)
  \/ StoreSweep
  \/ DirectTick

StoreSpec == FixedInit /\ [][StoreNext]_vars

\* CacheUtils.invalidatePattern(pattern) on the cache as it stands
Patterns == {"", "k", "1", "k2", "x"}
StoreInvalidate(pattern) ==
  /\ LET inv == InvalidatePattern(CacheState, pattern)
     IN  /\ cache' = inv.cs.cache
         /\ accessOrder' = inv.cs.accessOrder
         /\ recency' = Forget(recency, DOMAIN inv.cs.cache)
         /\ lastCall' = [op |-> "invalidatePattern", pattern |-> pattern,
                         ret |-> inv.count, before |-> CacheState]
  /\ StoreFrame

PatternNext ==
  \/ \E key \in CacheKeys, value \in StoreValues, ttl \in StoreTtls :
       StoreSet(key, value, ttl)
  \/ \E key \in CacheKeys : StoreGet(key)
  \/ \E pattern \in Patterns : StoreInvalidate(pattern)
  \/ DirectTick

PatternSpec == FixedInit /\ [][PatternNext]_vars

(***************************************************************************)
(* The cache next to its twin: both receive the same set, get and delete   *)
(* calls at the same times, and only the cache is swept.                   *)
(***************************************************************************)
TwinTtls == {<<1>>, <<MaxTime>>}

TwinFrame ==
  /\ UNCHANGED <<now, defaultTtl, requests, admitted, recency>>
  /\ UNCHANGED callVars
  /\ UNCHANGED timerVars
  /\ UNCHANGED authVars

TwinSet(key, value, ttl) ==
  /\ LET cs == CacheSet(CacheState, key, value, ttl, defaultTtl, now)
     IN  /\ cache' = cs.cache
         /\ accessOrder' = cs.accessOrder
  /\ twin' = CacheSet(twin, key, value, ttl, defaultTtl, now)
  /\ lastCall' = [op |-> "set", key |-> key]
  /\ TwinFrame

TwinGet(key) ==
  /\ LET got == CacheGet(CacheState, key, now)
         other == CacheGet(twin, key, now)
     IN  /\ cache' = got.cs.cache
         /\ accessOrder' = got.cs.accessOrder
         /\ twin' = other.cs
         /\ lastCall' = [op |-> "get", key |-> key, ret |-> got.value,
                         twinRet |-> other.value]
  /\ TwinFrame

TwinDelete(key) ==
  /\ LET cs == CacheDelete(CacheState, key)
     IN  /\ cache' = cs.cache
         /\ accessOrder' = cs.accessOrder
  /\ twin' = CacheDelete(twin, key)
  /\ lastCall' = [op |-> "delete", key |-> key]
  /\ TwinFrame

\* the interval of the cache fires; the twin has none
TwinSweep ==
  /\ LET cs == CacheCleanupExpired(CacheState, now)
     IN  /\ cache' = cs.cache
         /\ accessOrder' = cs.accessOrder
  /\ lastCall' = [op |-> "sweep"]
  /\ UNCHANGED twin
  /\ TwinFrame

TwinTick ==
  /\ Elapse
  /\ lastCall' = [op |-> "tick"]
  /\ UNCHANGED <<recency, twin>>
  /\ UNCHANGED authVars

TwinNext ==
  \/ \E key \in CacheKeys, value \in StoreValues, ttl \in TwinTtls :
       TwinSet(key, value, ttl)
  \/ \E key \in CacheKeys : TwinGet(key)
  \/ \E key \in CacheKeys : TwinDelete(key)
  \/ TwinSweep
  \/ TwinTick

TwinSpec == FixedInit /\ [][TwinNext]_vars

(***************************************************************************)
(* AuthService (services/auth-service.ts).  An auth state is the record of *)
(* ApiClient.currentToken, the fields of the service, the timers armed and *)
(* the cache state.                                                        *)
(***************************************************************************)
\* the ttl of the cached token (3600000 ms) and of the cached user
\* (300000 ms, the ttl of a cached response)
TokenCacheTtl == 36
UserCacheTtl == 3

Identities == {"a", "b"}
ConfigTokens == {Null, "t0"}
TokenCacheKey == "auth:token"
UserCacheKey(user) == "auth:user:" \o user
LoginRateLimitKey(email) == "auth:login:" \o email
UserOf(email) == "u:" \o email

AuthState ==
  [currentToken |-> currentToken, currentUser |-> currentUser,
   tokenRefreshTimer |-> tokenRefreshTimer, pendingTimers |-> pendingTimers,
   cs |-> CacheState]

\* AuthService.isAuthenticated
IsAuthenticated(a) == a.currentUser # Null

\* AuthService.setToken
SetToken(a, token, dflt, t) ==
  [a EXCEPT !.currentToken = token,
            !.cs = CacheSet(a.cs, TokenCacheKey, token, <<TokenCacheTtl>>,
                            dflt, t)]

\* AuthService.clearToken: currentUser is null by the time it is tested
ClearToken(a) ==
  LET user == Null
      cs1 == CacheDelete(a.cs, TokenCacheKey)
      cs2 == IF user # Null THEN CacheDelete(cs1, UserCacheKey(user)) ELSE cs1
  IN  [currentToken |-> Null, currentUser |-> user,
       tokenRefreshTimer |-> Null,
       pendingTimers |-> IF a.tokenRefreshTimer # Null
                         THEN a.pendingTimers \ {a.tokenRefreshTimer}
                         ELSE a.pendingTimers,
       cs |-> cs2]

\* setTimeout: a handle that is not in use
Timers == {"timer1", "timer2", "timer3"}
NewTimer(a) ==
  LET free == Timers \ (a.pendingTimers \cup {a.tokenRefreshTimer})
  IN  IF free = {} THEN "timer1" ELSE CHOOSE h \in free : TRUE

\* AuthService.setupTokenRefresh
SetupTokenRefresh(a) ==
  LET cleared == IF a.tokenRefreshTimer # Null
                 THEN a.pendingTimers \ {a.tokenRefreshTimer}
                 ELSE a.pendingTimers
  IN  [a EXCEPT !.tokenRefreshTimer = NewTimer(a),
                !.pendingTimers = cleared \cup {NewTimer(a)}]

\* AuthService.constructor, then main: the refresh is set up if
\* isAuthenticated()
Constructed(token, dflt, t) ==
  LET blank == [currentToken |-> Null, currentUser |-> Null,
                tokenRefreshTimer |-> Null, pendingTimers |-> {},
                cs |-> [cache |-> EmptyMap, accessOrder |-> <<>>]]
      made == IF token # Null THEN SetToken(blank, token, dflt, t) ELSE blank
  IN  IF IsAuthenticated(made) THEN SetupTokenRefresh(made) ELSE made

\* variant: a failed login clears the authentication
AfterAuthenticateClearing(a, res, dflt, t) ==
  IF res.status = "resolved"
  THEN [SetToken(a, res.value.access_token, dflt, t)
          EXCEPT !.currentUser = res.value.user]
  ELSE ClearToken(a)

\* authenticate after the login call settled with res
AfterAuthenticate(a, res, dflt, t) ==
  IF res.status = "resolved"
  THEN [SetToken(a, res.value.access_token, dflt, t)
          EXCEPT !.currentUser = res.value.user]
  ELSE a

\* getCurrentUser after the call of /auth/me settled with res
AfterGetCurrentUser(a, res, cacheKey, dflt, t) ==
  IF res.status = "resolved"
  THEN [a EXCEPT !.currentUser = res.value,
                 !.cs = CacheSet(a.cs, cacheKey, res.value, <<UserCacheTtl>>,
                                 dflt, t)]
  ELSE ClearToken(a)

\* variant: the refresh is set up again whatever the outcome
AfterRefreshAlwaysRearm(a, res, scheduled, dflt, t) ==
  LET b == IF res.status = "resolved"
           THEN [SetToken(a, res.value.access_token, dflt, t)
                   EXCEPT !.currentUser = res.value.user]
           ELSE ClearToken(a)
  IN  IF scheduled THEN SetupTokenRefresh(b) ELSE b

\* variant: the refresh is never set up again
AfterRefreshNoRearm(a, res, scheduled, dflt, t) ==
  IF res.status = "resolved"
  THEN [SetToken(a, res.value.access_token, dflt, t)
          EXCEPT !.currentUser = res.value.user]
  ELSE ClearToken(a)

\* refreshToken after the call of /auth/refresh settled with res, and the
\* timer callback of setupTokenRefresh when the refresh was scheduled
AfterRefresh(a, res, scheduled, dflt, t) ==
  IF res.status = "resolved"
  THEN LET b == [SetToken(a, res.value.access_token, dflt, t)
                   EXCEPT !.currentUser = res.value.user]
       IN  IF scheduled THEN SetupTokenRefresh(b) ELSE b
  ELSE ClearToken(a)

\* logout after the call of /auth/logout settled either way
AfterLogout(a) == ClearToken(a)

\* variant: no check under the key of the identity
AdmitLoginAlways(reqs, email, t) == [allowed |-> TRUE, requests |-> reqs]

\* authenticate: the check under the key of the identity
AdmitLogin(reqs, email, t) == IsAllowed(reqs, LoginRateLimitKey(email), t)

\* the error authenticate throws when that check rejects; the clock counts
\* in units of which the seconds of the message are a whole number
TooManyAttempts(reqs, email, t) ==
  AuthenticationError(
    "Too many login attempts. Try again in "
      \o ToString(GetResetTime(reqs, LoginRateLimitKey(email), t) - t)
      \o " seconds.")

LoginConfig == [method |-> "POST", url |-> "/auth/login", params |-> NoParams]
MeConfig == [method |-> "GET", url |-> "/auth/me", params |-> NoParams]
RefreshConfig ==
  [method |-> "POST", url |-> "/auth/refresh", params |-> NoParams]
LogoutConfig ==
  [method |-> "POST", url |-> "/auth/logout", params |-> NoParams]

\* the call in progress: its name, where it stands ("call": about to invoke
\* apiClient, "await": awaiting it), and what it keeps across the await
PendingOp(name, cfg, email, scheduled, cacheKey, identityCount) ==
  [name |-> name, stage |-> "call", cfg |-> cfg, email |-> email,
   scheduled |-> scheduled, cacheKey |-> cacheKey,
   identityCount |-> identityCount, endpointCount |-> 0]
\* a call completed: ok is false when it threw or returned null or false;
\* the token, the user and the timers are those it found on completing
DoneOp(name, ok, error, email, scheduled, sent, identityCount, endpointCount) ==
  [name |-> name, ok |-> ok, error |-> error, email |-> email,
   scheduled |-> scheduled, sent |-> sent, identityCount |-> identityCount,
   endpointCount |-> endpointCount, tokenBefore |-> currentToken,
   userBefore |-> currentUser, timersBefore |-> pendingTimers]
SyncDone(name, ok) == DoneOp(name, ok, NoError, "", FALSE, FALSE, 0, 0)

Idle(bound) ==
  op = NoOp /\ pc["c1"] = "idle" /\ now <= MaxTime /\ calls < bound
\* between two awaits the code runs to completion
Settling == op # NoOp /\ (op.stage = "call" \/ pc["c1"] = "done")

SetAuthState(a) ==
  /\ currentToken' = a.currentToken
  /\ currentUser' = a.currentUser
  /\ tokenRefreshTimer' = a.tokenRefreshTimer
  /\ pendingTimers' = a.pendingTimers
  /\ cache' = a.cs.cache
  /\ accessOrder' = a.cs.accessOrder

FrameOfSync ==
  /\ UNCHANGED <<now, defaultTtl, requests, admitted>>
  /\ UNCHANGED callVars
  /\ UNCHANGED timerVars
  /\ UNCHANGED harnessVars

\* authService.authenticate(email, password), up to apiClient.post
AuthenticateStart(email, bound) ==
  /\ Idle(bound)
  /\ LET adm == AdmitLogin(requests, email, now)
         key == LoginRateLimitKey(email)
         count == Len(EntriesOf(admitted, key))
     IN  /\ requests' = adm.requests
         /\ IF adm.allowed
            THEN /\ admitted' = Put(admitted, key,
                                    Append(EntriesOf(admitted, key), now))
                 /\ op' = PendingOp("authenticate", LoginConfig, email, FALSE,
                                    "", count)
                 /\ UNCHANGED lastOp
            ELSE /\ UNCHANGED <<admitted, op>>
                 /\ lastOp' = DoneOp("authenticate", FALSE,
                                     TooManyAttempts(adm.requests, email, now),
                                     email, FALSE, FALSE, count, 0)
  /\ UNCHANGED <<now, defaultTtl, cache, accessOrder, currentToken,
                 currentUser, tokenRefreshTimer, pendingTimers>>
  /\ UNCHANGED callVars
  /\ UNCHANGED timerVars
  /\ UNCHANGED harnessVars

\* authService.getCurrentUser() or validateToken(), up to apiClient.get
GetCurrentUserStart(name, bound) ==
  /\ Idle(bound)
  /\ IF currentUser = Null
     THEN /\ lastOp' = SyncDone(name, FALSE)
          /\ UNCHANGED <<cache, accessOrder, op>>
     ELSE LET key == UserCacheKey(currentUser)
              got == CacheGet(CacheState, key, now)
          IN  /\ cache' = got.cs.cache
              /\ accessOrder' = got.cs.accessOrder
              /\ IF Truthy(got.value)
                 THEN lastOp' = SyncDone(name, TRUE) /\ UNCHANGED op
                 ELSE /\ op' = PendingOp(name, MeConfig, "", FALSE, key, 0)
                      /\ UNCHANGED lastOp
  /\ UNCHANGED <<currentToken, currentUser, tokenRefreshTimer, pendingTimers>>
  /\ FrameOfSync

\* authService.refreshToken() called directly
RefreshTokenStart ==
  /\ Idle(MaxAuthCalls)
  /\ op' = PendingOp("refreshToken", RefreshConfig, "", FALSE, "", 0)
  /\ UNCHANGED <<cache, accessOrder, currentToken, currentUser,
                 tokenRefreshTimer, pendingTimers, lastOp>>
  /\ FrameOfSync

\* the timer armed by setupTokenRefresh fires: its callback calls
\* refreshToken
TimerFire ==
  /\ Idle(MaxAuthCalls)
  /\ \E h \in pendingTimers :
       /\ pendingTimers' = pendingTimers \ {h}
       /\ op' = PendingOp("refreshToken", RefreshConfig, "", TRUE, "", 0)
  /\ UNCHANGED <<cache, accessOrder, currentToken, currentUser,
                 tokenRefreshTimer, lastOp>>
  /\ FrameOfSync

\* authService.logout()
LogoutStart ==
  /\ Idle(MaxAuthCalls)
  /\ op' = PendingOp("logout", LogoutConfig, "", FALSE, "", 0)
  /\ UNCHANGED <<cache, accessOrder, currentToken, currentUser,
                 tokenRefreshTimer, pendingTimers, lastOp>>
  /\ FrameOfSync

\* the call in progress invokes apiClient.request
OpCall ==
  /\ op # NoOp
  /\ op.stage = "call"
  /\ RequestCall("c1", op.cfg)
  /\ op' = [op EXCEPT !.stage = "await",
                      !.endpointCount =
                        Len(EntriesOf(admitted, RateLimitKey(op.cfg)))]
  /\ UNCHANGED <<currentToken, currentUser, tokenRefreshTimer, pendingTimers,
                 lastOp>>
  /\ UNCHANGED harnessVars

\* what the upstream answers to the call in progress
AuthFailures == {[ok |-> FALSE, error |-> [response |-> [status |-> 401]]]}
Answer(data) == [ok |-> TRUE, data |-> data]
OpOutcomes(o) ==
  CASE o.name = "authenticate" ->
         {Answer([access_token |-> "t1", user |-> UserOf(o.email)])}
           \cup AuthFailures
    [] o.name = "refreshToken" ->
         {Answer([access_token |-> "t2", user |-> UserOf("a")])}
           \cup AuthFailures
    [] o.name \in {"getCurrentUser", "validateToken"} ->
         {Answer(UserOf("a"))} \cup AuthFailures
    [] o.name = "get_links" ->
         {Answer("v1"), Answer("v2")} \cup AuthFailures
    [] OTHER -> {Answer("ok")} \cup AuthFailures

OpRespond(o) == op # NoOp /\ op.stage = "await" /\ Respond("c1", o)
OpWake == op # NoOp /\ Wake("c1")
OpTick == ~Settling /\ Tick

\* the call of apiClient settled: the call in progress takes the result and
\* runs to its end
OpResume ==
  /\ op # NoOp
  /\ op.stage = "await"
  /\ op.name \in {"authenticate", "getCurrentUser", "validateToken",
                  "refreshToken", "logout"}
  /\ LET res == result["c1"]
         ok == res.status = "resolved"
         a == CASE op.name = "authenticate" ->
                     AfterAuthenticate(AuthState, res, defaultTtl, now)
                [] op.name = "refreshToken" ->
                     AfterRefresh(AuthState, res, op.scheduled, defaultTtl,
                                  now)
                [] op.name = "logout" -> AfterLogout(AuthState)
                [] OTHER ->
                     AfterGetCurrentUser(AuthState, res, op.cacheKey,
                                         defaultTtl, now)
         error == IF ok THEN NoError
                  ELSE IF op.name = "authenticate"
                  THEN AuthenticationError(res.error.message)
                  ELSE res.error
     IN  /\ SetAuthState(a)
         /\ lastOp' = DoneOp(op.name, ok \/ op.name = "logout", error,
                             op.email, op.scheduled, dispatches["c1"] > 0,
                             op.identityCount, op.endpointCount)
  /\ op' = NoOp
  /\ TakeResult("c1")
  /\ UNCHANGED <<now, defaultTtl, requests, admitted>>
  /\ UNCHANGED harnessVars

\* authService.setToken(token), called between two operations
SetTokenOp(token) ==
  /\ op = NoOp
  /\ SetAuthState(SetToken(AuthState, token, defaultTtl, now))
  /\ lastOp' = SyncDone("setToken", TRUE)
  /\ UNCHANGED op
  /\ FrameOfSync

\* authService.clearToken()
ClearTokenCall ==
  /\ SetAuthState(ClearToken(AuthState))
  /\ lastOp' = SyncDone("clearToken", TRUE)
  /\ UNCHANGED op
  /\ FrameOfSync
\* called between two operations
ClearTokenOp == op = NoOp /\ ClearTokenCall
\* called while an operation awaits its request
ClearTokenDuring == op # NoOp /\ ~Settling /\ ClearTokenCall

\* authService.setupTokenRefresh()
SetupTokenRefreshOp ==
  /\ op = NoOp
  /\ SetAuthState(SetupTokenRefresh(AuthState))
  /\ lastOp' = SyncDone("setupTokenRefresh", TRUE)
  /\ UNCHANGED op
  /\ FrameOfSync

\* the service after construction, with or without LL_TOKEN
AuthInit ==
  /\ ClientInit
  /\ defaultTtl = ApiCacheTtl
  /\ \E token \in ConfigTokens :
       LET a == Constructed(token, ApiCacheTtl, 0)
       IN  /\ currentToken = a.currentToken
           /\ cache = a.cs.cache
           /\ accessOrder = a.cs.accessOrder

AuthNext ==
  \/ AuthenticateStart("a", MaxAuthCalls)
  \/ GetCurrentUserStart("getCurrentUser", MaxAuthCalls)
  \/ RefreshTokenStart
  \/ TimerFire
  \/ LogoutStart
  \/ OpCall
  \/ \E o \in OpOutcomes(op) : OpRespond(o)
  \/ OpWake
  \/ OpResume
  \/ \E token \in {"t3"} : SetTokenOp(token)
  \/ ClearTokenOp
  \/ SetupTokenRefreshOp
  \/ OpTick

AuthSpec == AuthInit /\ [][AuthNext]_vars

\* the operations that read or set the user, with clearToken called while
\* one of them is in flight
AuthRaceNext ==
  \/ AuthenticateStart("a", MaxAuthCalls)
  \/ GetCurrentUserStart("validateToken", MaxAuthCalls)
  \/ OpCall
  \/ \E o \in OpOutcomes(op) : OpRespond(o)
  \/ OpWake
  \/ OpResume
  \/ ClearTokenDuring
  \/ OpTick

AuthRaceSpec == AuthInit /\ [][AuthRaceNext]_vars

\* authenticate called for either identity, one call at a time
LoginNext ==
  \/ \E email \in Identities : AuthenticateStart(email, MaxCalls)
  \/ OpCall
  \/ \E o \in OpOutcomes(op) : OpRespond(o)
  \/ OpWake
  \/ OpResume
  \/ OpTick

LoginSpec == AuthInit /\ [][LoginNext]_vars

(***************************************************************************)
(* The tools of the server: authenticate, get_links, create_link           *)
(***************************************************************************)
\* queryParams.toString() for no argument and for limit = 1
QueryStrings == {"", "limit=1"}
GetLinksConfig(query) ==
  [method |-> "GET", url |-> "/links?" \o query, params |-> NoParams]
CreateLinkConfig == [method |-> "POST", url |-> "/links", params |-> NoParams]
\* the key create_link deletes
LinksInvalidationKey == "api:GET:/links"

\* globalCache.delete('api:GET:/links')
InvalidateLinks(cs) == CacheDelete(cs, LinksInvalidationKey)

AuthenticationRequired ==
  [class |-> "Error", statusCode |-> 0, code |-> "",
   message |-> "Authentication required. Please authenticate first."]

\* the tools that call ensureAuthenticated first: all but authenticate
GuardedTools == {"get_links", "create_link", "get_collections", "get_tags",
                 "search_advanced", "get_user_stats"}

\* the handler's catch block: the failure as a text result (the text of the
\* source starts with a cross mark, which an ASCII module leaves out)
ErrorResult(error) ==
  [content |-> <<[type |-> "text", text |-> "Error: " \o error.message]>>]

\* variant: the tool goes to apiClient without ensureAuthenticated
ToolStartUnguarded(name, cfg) ==
  /\ Idle(MaxToolCalls)
  /\ op' = PendingOp(name, cfg, "", FALSE, "", 0)
  /\ UNCHANGED lastOp
  /\ UNCHANGED <<cache, accessOrder, currentToken, currentUser,
                 tokenRefreshTimer, pendingTimers>>
  /\ FrameOfSync

\* a tool that calls ensureAuthenticated and then apiClient
ToolStart(name, cfg) ==
  /\ Idle(MaxToolCalls)
  /\ IF IsAuthenticated(AuthState)
     THEN op' = PendingOp(name, cfg, "", FALSE, "", 0) /\ UNCHANGED lastOp
     ELSE /\ lastOp' = DoneOp(name, FALSE, AuthenticationRequired, "", FALSE,
                              FALSE, 0, 0)
          /\ UNCHANGED op
  /\ UNCHANGED <<cache, accessOrder, currentToken, currentUser,
                 tokenRefreshTimer, pendingTimers>>
  /\ FrameOfSync

GetLinks(query) == ToolStart("get_links", GetLinksConfig(query))
CreateLink == ToolStart("create_link", CreateLinkConfig)

\* the call of apiClient settled: the rest of the tool
ToolResume ==
  /\ op # NoOp
  /\ op.stage = "await"
  /\ op.name \in GuardedTools
  /\ LET ok == result["c1"].status = "resolved"
         cs == IF ok /\ op.name = "create_link"
               THEN InvalidateLinks(CacheState) ELSE CacheState
     IN  /\ cache' = cs.cache
         /\ accessOrder' = cs.accessOrder
         /\ lastOp' = DoneOp(op.name, ok, result["c1"].error, "", FALSE,
                             dispatches["c1"] > 0, 0, op.endpointCount)
  /\ op' = NoOp
  /\ TakeResult("c1")
  /\ UNCHANGED <<currentToken, currentUser, tokenRefreshTimer, pendingTimers>>
  /\ UNCHANGED <<now, defaultTtl, requests, admitted>>
  /\ UNCHANGED harnessVars

ServerNext ==
  \/ AuthenticateStart("a", MaxToolCalls)
  \/ \E query \in QueryStrings : GetLinks(query)
  \/ CreateLink
  \/ OpCall
  \/ \E o \in OpOutcomes(op) : OpRespond(o)
  \/ OpWake
  \/ OpResume
  \/ ToolResume
  \/ OpTick

ServerSpec == AuthInit /\ [][ServerNext]_vars

\* the other tools behind ensureAuthenticated
CollectionsConfig ==
  [method |-> "GET", url |-> "/collections", params |-> NoParams]
TagsConfig == [method |-> "GET", url |-> "/tags", params |-> NoParams]
SearchConfig ==
  [method |-> "POST", url |-> "/search/advanced", params |-> NoParams]
UserStatsConfig ==
  [method |-> "GET", url |-> "/analytics/user-stats?period=month",
   params |-> NoParams]
GetCollections == ToolStart("get_collections", CollectionsConfig)
GetTags == ToolStart("get_tags", TagsConfig)
SearchAdvanced == ToolStart("search_advanced", SearchConfig)
GetUserStats == ToolStart("get_user_stats", UserStatsConfig)

\* every tool of the server, called one at a time
GuardNext ==
  \/ AuthenticateStart("a", MaxAuthCalls)
  \/ GetLinks("")
  \/ CreateLink
  \/ GetCollections
  \/ GetTags
  \/ SearchAdvanced
  \/ GetUserStats
  \/ OpCall
  \/ \E o \in OpOutcomes(op) : OpRespond(o)
  \/ OpWake
  \/ OpResume
  \/ ToolResume
  \/ OpTick

GuardSpec == AuthInit /\ [][GuardNext]_vars

(***************************************************************************)
(* ApiClient.handleApiError applied to each transport failure              *)
(***************************************************************************)
\* the failures axios reports: a response with a status that
\* validateStatus rejects, or an error code and no response
ErrorStatuses == 400..599
ErrorCodes == {"ECONNABORTED", "ENOTFOUND", "ECONNREFUSED"}
TransportErrors ==
  {[response |-> [status |-> s]] : s \in ErrorStatuses}
    \cup {[code |-> c] : c \in ErrorCodes}

HandleApiErrorCall(error) ==
  /\ lastCall' = [op |-> "handleApiError", error |-> error,
                  ret |-> HandleApiError(error)]
  /\ UNCHANGED <<now, defaultTtl, cache, accessOrder, requests, admitted,
                 recency, twin>>
  /\ UNCHANGED callVars
  /\ UNCHANGED timerVars
  /\ UNCHANGED authVars

ClassifyNext == \E error \in TransportErrors : HandleApiErrorCall(error)

ClassifySpec == FixedInit /\ [][ClassifyNext]_vars

(***************************************************************************)
(* ApiClient.healthCheck                                                   *)
(***************************************************************************)
HealthConfig == [method |-> "GET", url |-> "/health", params |-> NoParams]

\* apiClient.healthCheck(), up to this.get("/health")
HealthCheckStart ==
  /\ Idle(MaxAuthCalls)
  /\ op' = PendingOp("healthCheck", HealthConfig, "", FALSE, "", 0)
  /\ UNCHANGED <<cache, accessOrder, currentToken, currentUser,
                 tokenRefreshTimer, pendingTimers, lastOp>>
  /\ FrameOfSync

\* the get settled: true when it resolved, false from the catch
HealthCheckResume ==
  /\ op # NoOp
  /\ op.stage = "await"
  /\ op.name = "healthCheck"
  /\ lastOp' = DoneOp("healthCheck", result["c1"].status = "resolved",
                      NoError, "", FALSE, dispatches["c1"] > 0, 0,
                      op.endpointCount)
  /\ op' = NoOp
  /\ TakeResult("c1")
  /\ UNCHANGED <<cache, accessOrder, currentToken, currentUser,
                 tokenRefreshTimer, pendingTimers>>
  /\ UNCHANGED <<now, defaultTtl, requests, admitted>>
  /\ UNCHANGED harnessVars

HealthNext ==
  \/ HealthCheckStart
  \/ OpCall
  \/ \E o \in OpOutcomes(op) : OpRespond(o)
  \/ OpWake
  \/ HealthCheckResume
  \/ OpTick

HealthSpec == AuthInit /\ [][HealthNext]_vars

(***************************************************************************)
(* getCurrentUser and validateToken with every kind of failure of the call *)
(* of /auth/me: rejected by the upstream, failed upstream, no response.    *)
(***************************************************************************)
MeFailures ==
  {[ok |-> FALSE, error |-> e] :
     e \in {[response |-> [status |-> 401]], [response |-> [status |-> 503]],
            [code |-> "ENOTFOUND"]}}
MeOutcomes(o) ==
  IF o.name \in {"getCurrentUser", "validateToken"}
  THEN {Answer(UserOf("a"))} \cup MeFailures
  ELSE OpOutcomes(o)

MeNext ==
  \/ AuthenticateStart("a", MaxCalls)
  \/ GetCurrentUserStart("getCurrentUser", MaxCalls)
  \/ GetCurrentUserStart("validateToken", MaxCalls)
  \/ OpCall
  \/ \E o \in MeOutcomes(op) : OpRespond(o)
  \/ OpWake
  \/ OpResume
  \/ ClearTokenOp
  \/ OpTick

MeSpec == AuthInit /\ [][MeNext]_vars

(***************************************************************************)
(* clearToken and logout next to the calls they can overtake: a scheduled  *)
(* refresh and a getCurrentUser that await their response.                 *)
(***************************************************************************)
OvertakeNext ==
  \/ AuthenticateStart("a", MaxAuthCalls)
  \/ GetCurrentUserStart("getCurrentUser", MaxAuthCalls)
  \/ SetupTokenRefreshOp
  \/ TimerFire
  \/ LogoutStart
  \/ OpCall
  \/ \E o \in OpOutcomes(op) : OpRespond(o)
  \/ OpWake
  \/ OpResume
  \/ ClearTokenOp
  \/ ClearTokenDuring
  \/ OpTick

OvertakeSpec == AuthInit /\ [][OvertakeNext]_vars

(***************************************************************************)
(* Stopping the background work: clear() and destroy() of the cache and of *)
(* the limiter, clearToken() of the auth service, called at any moment,    *)
(* also while a scheduled refresh awaits its response.                     *)
(***************************************************************************)
\* InMemoryCache.clear(): the entries, the access order and the interval
CacheClear(cs, interval) ==
  [cache |-> EmptyMap, accessOrder |-> <<>>, cleanupInterval |-> FALSE]
\* InMemoryCache.destroy(): stops the interval, then clear()
CacheDestroy(cs, interval) == CacheClear(cs, FALSE)
\* RateLimiter.clear(): the entries and the interval
LimiterClear(reqs, interval) ==
  [requests |-> EmptyMap, cleanupInterval |-> FALSE]
\* RateLimiter.destroy(): stops the interval, then clear()
LimiterDestroy(reqs, interval) == LimiterClear(reqs, FALSE)

StopFrame ==
  /\ UNCHANGED <<now, defaultTtl>>
  /\ UNCHANGED callVars
  /\ UNCHANGED authVars

CacheStop(stopped) ==
  /\ cache' = stopped.cache
  /\ accessOrder' = stopped.accessOrder
  /\ cacheCleanupInterval' = stopped.cleanupInterval
  /\ recency' = <<>>
  /\ UNCHANGED twin
  /\ UNCHANGED <<requests, admitted, limiterCleanupInterval>>
  /\ StopFrame
\* globalCache.clear()
CacheClearCall ==
  /\ CacheStop(CacheClear(CacheState, cacheCleanupInterval))
  /\ lastCall' = [op |-> "cache.clear"]
\* globalCache.destroy()
CacheDestroyCall ==
  /\ CacheStop(CacheDestroy(CacheState, cacheCleanupInterval))
  /\ lastCall' = [op |-> "cache.destroy"]

LimiterStop(stopped) ==
  /\ requests' = stopped.requests
  /\ limiterCleanupInterval' = stopped.cleanupInterval
  /\ admitted' = EmptyMap
  /\ UNCHANGED <<cache, accessOrder, cacheCleanupInterval, recency,
                 twin>>
  /\ StopFrame
\* globalRateLimiter.clear()
LimiterClearCall ==
  /\ LimiterStop(LimiterClear(requests, limiterCleanupInterval))
  /\ lastCall' = [op |-> "limiter.clear"]
\* globalRateLimiter.destroy()
LimiterDestroyCall ==
  /\ LimiterStop(LimiterDestroy(requests, limiterCleanupInterval))
  /\ lastCall' = [op |-> "limiter.destroy"]

\* the sweeps fire while their interval is armed
StopCacheSweep == op = NoOp /\ CacheSweep
StopLimiterSweep == op = NoOp /\ LimiterSweep

StopKeys == {"k1"}
StopNext ==
  \/ \E key \in StopKeys, value \in StoreValues, ttl \in StoreTtls :
       op = NoOp /\ StoreSet(key, value, ttl)
  \/ \E key \in StopKeys : op = NoOp /\ StoreGet(key)
  \/ \E key \in StopKeys : op = NoOp /\ DirectIsAllowed(key)
  \/ CacheClearCall
  \/ CacheDestroyCall
  \/ LimiterClearCall
  \/ LimiterDestroyCall
  \/ StopCacheSweep
  \/ StopLimiterSweep
  \/ SetupTokenRefreshOp
  \/ TimerFire
  \/ OpCall
  \/ \E o \in OpOutcomes(op) : OpRespond(o)
  \/ OpWake
  \/ OpResume
  \/ ClearTokenOp
  \/ ClearTokenDuring

StopSpec == AuthInit /\ [][StopNext]_vars

(***************************************************************************)
(* A request of the client with setToken and clearToken of the auth        *)
(* service called at any moment, also while the request waits in backoff.  *)
(***************************************************************************)
CarryTokens == {"t3"}
CarryNext ==
  \/ calls < MaxFairCalls /\ Request("c1", CreateLinkConfig)
  \/ \E o \in Outcomes : Respond("c1", o)
  \/ Wake("c1")
  \/ Return("c1")
  \/ \E token \in CarryTokens : SetTokenOp(token)
  \/ ClearTokenOp
  \/ Tick

CarrySpec == AuthInit /\ [][CarryNext]_vars

(***************************************************************************)
(* CacheUtils.generateKey applied to pairs of GET descriptors whose params *)
(* objects hold up to two properties, in either order of insertion.        *)
(***************************************************************************)
ParamNames == {"p", "q"}
ParamValues == {"1", "2"}
\* the params objects: undefined, {}, one property, two properties in the
\* order of their insertion
ParamObjects ==
  {NoParams}
    \cup {[defined |-> TRUE, pairs |-> <<>>]}
    \cup {[defined |-> TRUE, pairs |-> <<<<n, v>>>>] :
            n \in ParamNames, v \in ParamValues}
    \cup {[defined |-> TRUE, pairs |-> <<<<nm[1], v>>, <<nm[2], w>>>>] :
            nm \in {x \in ParamNames \X ParamNames : x[1] # x[2]},
            v \in ParamValues, w \in ParamValues}
KeyUrls == {"/links", "/tags"}
KeyConfigs == [method : {"GET"}, url : KeyUrls, params : ParamObjects]

GenerateKeyCall(a, b) ==
  /\ lastCall' = [op |-> "generateKey", a |-> a, b |-> b,
                  keyA |-> GenerateKey(a), keyB |-> GenerateKey(b)]
  /\ UNCHANGED <<now, defaultTtl, cache, accessOrder, requests, admitted,
                 recency, twin>>
  /\ UNCHANGED callVars
  /\ UNCHANGED timerVars
  /\ UNCHANGED authVars

KeyNext == \E a \in KeyConfigs, b \in KeyConfigs : GenerateKeyCall(a, b)

KeySpec == FixedInit /\ [][KeyNext]_vars

(***************************************************************************)
(* GET requests of the client against an upstream that answers each        *)
(* credential with the data of its owner and refuses a request without     *)
(* one; setToken and clearToken are called at any moment.                  *)
(***************************************************************************)
\* what the upstream returns for the credential of the header
DataOf(header) == "links of " \o header
CredentialOutcomes(c) ==
  IF carried[c] = <<>> THEN {}
  ELSE LET header == carried[c][Len(carried[c])]
       IN  IF header = NoHeader
           THEN {[ok |-> FALSE, error |-> [response |-> [status |-> 401]]]}
           ELSE {Answer(DataOf(header))}

CredentialNext ==
  \/ calls < MaxCalls /\ Request("c1", GetLinksConfig(""))
  \/ \E o \in CredentialOutcomes("c1") : Respond("c1", o)
  \/ Wake("c1")
  \/ Return("c1")
  \/ \E token \in CarryTokens : SetTokenOp(token)
  \/ ClearTokenOp
  \/ Tick

CredentialSpec == AuthInit /\ [][CredentialNext]_vars

(***************************************************************************)
(* GET requests of the client with the cache invalidated at any moment,    *)
(* also while a request awaits its response.  lastCall keeps the last      *)
(* invalidation and the number of requests started before it.              *)
(***************************************************************************)
InvalidatedConfigs == {GetLinksConfig(query) : query \in QueryStrings}
InvalidationFrame ==
  /\ UNCHANGED <<now, defaultTtl, requests, admitted, recency, twin>>
  /\ UNCHANGED callVars
  /\ UNCHANGED timerVars
  /\ UNCHANGED authVars

\* globalCache.delete(key)
InvalidateKey(key) ==
  /\ LET cs == CacheDelete(CacheState, key)
     IN  /\ cache' = cs.cache
         /\ accessOrder' = cs.accessOrder
  /\ lastCall' = [op |-> "invalidate", keys |-> {key}, calls |-> calls]
  /\ InvalidationFrame

\* CacheUtils.invalidatePattern(pattern)
InvalidateMatching(pattern) ==
  /\ LET inv == InvalidatePattern(CacheState, pattern)
     IN  /\ cache' = inv.cs.cache
         /\ accessOrder' = inv.cs.accessOrder
  /\ lastCall' = [op |-> "invalidate",
                  keys |-> {GenerateKey(cfg) : cfg \in
                              {x \in InvalidatedConfigs :
                                 Includes(GenerateKey(x), pattern)}},
                  calls |-> calls]
  /\ InvalidationFrame

InvalidationNext ==
  \/ \E cfg \in InvalidatedConfigs :
       calls < MaxFairCalls /\ Request("c1", cfg)
  \/ \E o \in Outcomes : Respond("c1", o)
  \/ Wake("c1")
  \/ Return("c1")
  \/ \E cfg \in InvalidatedConfigs : InvalidateKey(GenerateKey(cfg))
  \/ InvalidateMatching("/links")
  \/ Tick

InvalidationSpec == FixedInit /\ [][InvalidationNext]_vars

(***************************************************************************)
(* The cache driven directly with keys that include the empty string       *)
(***************************************************************************)
AnyKeys == {"", "k1", "k2"}
AnyKeyNext ==
  \/ \E key \in AnyKeys, value \in StoreValues, ttl \in StoreTtls :
       StoreSet(key, value, ttl)
  \/ \E key \in AnyKeys : StoreGet(key)
  \/ \E key \in AnyKeys : StoreHas(key)
  \/ \E key \in AnyKeys : StoreDelete(key)
  \/ CacheClearCall
  \/ StoreSweep
  \/ DirectTick

AnyKeySpec == FixedInit /\ [][AnyKeyNext]_vars

(***************************************************************************)
(* authenticate with every way it fails: credentials missing, refused by   *)
(* the limiter under the key of the identity, rejected by the upstream;    *)
(* called on a service that may hold a token, a user and an armed refresh. *)
(***************************************************************************)
\* config.ts authConfig: LL_USERNAME and LL_PASSWORD are not set
\* (undefined is "")
authConfig == [username |-> "", password |-> ""]
\* a || b on strings
OrElse(a, b) == IF a # "" THEN a ELSE b
MissingCredentials == AuthenticationError("Username and password are required")

\* authService.authenticate(username, password), up to apiClient.post
AuthenticateCall(username, password, bound) ==
  LET email == OrElse(username, authConfig.username)
      pwd == OrElse(password, authConfig.password)
  IN  IF email = "" \/ pwd = ""
      THEN /\ Idle(bound)
           /\ lastOp' = DoneOp("authenticate", FALSE, MissingCredentials,
                               email, FALSE, FALSE, 0, 0)
           /\ UNCHANGED <<now, defaultTtl, cache, accessOrder, requests,
                          admitted, currentToken, currentUser,
                          tokenRefreshTimer, pendingTimers, op>>
           /\ UNCHANGED callVars
           /\ UNCHANGED timerVars
           /\ UNCHANGED harnessVars
      ELSE AuthenticateStart(email, bound)

\* what the upstream answers to the login: the token and the user, or a
\* rejection
LoginOutcomes(o) ==
  IF o.name = "authenticate"
  THEN {Answer([access_token |-> "t1", user |-> UserOf(o.email)])}
         \cup {[ok |-> FALSE, error |-> [response |-> [status |-> s]]] :
                 s \in {401, 403}}
  ELSE OpOutcomes(o)

FailedLoginNext ==
  \/ \E username \in {"", "a"}, password \in {"", "pw"} :
       AuthenticateCall(username, password, MaxCalls)
  \/ SetupTokenRefreshOp
  \/ OpCall
  \/ \E o \in LoginOutcomes(op) : OpRespond(o)
  \/ OpWake
  \/ OpResume
  \/ OpTick

FailedLoginSpec == AuthInit /\ [][FailedLoginNext]_vars

(***************************************************************************)
(* Properties of ApiClient.request                                         *)
(***************************************************************************)
InFlight(c) == pc[c] \in {"dispatching", "sleeping"}
Failed(c) == lastOutcome[c] # NoOutcome /\ ~lastOutcome[c].ok
\* the last dispatch was answered with a status in 400..499 other than 429
ClientError(c) ==
  /\ Failed(c)
  /\ HasResponse(lastOutcome[c].error)
  /\ lastOutcome[c].error.response.status >= 400
  /\ lastOutcome[c].error.response.status < 500
  /\ lastOutcome[c].error.response.status # 429
\* base, 2*base, 4*base, ...: the delays before attempts 2 .. n + 1
ExpectedDelays(n) == [k \in 1..n |-> retryDelay * Pow2(k - 1)]

\* C1: a request whose first dispatch is answered with a status in 400..499
\* other than 429 makes that one dispatch, sleeps no backoff delay and is
\* rejected at once with the classified error of that attempt.
C1_ClientErrorNotRetried ==
  \A c \in Callers :
    (ClientError(c) /\ attempt[c] = 1) =>
      /\ pc[c] = "done"
      /\ dispatches[c] = 1
      /\ delays[c] = <<>>
      /\ result[c] = Rejected(HandleApiError(lastOutcome[c].error))

\* C2: when the first n <= maxRetries dispatches fail with a 5xx, a 429, a
\* time-out or no response and dispatch n + 1 succeeds, the call resolves
\* with the body of that dispatch, nothing is settled before, and the delays
\* slept are retryDelay * 2^(k-1) for k = 1 .. n, each waited in full.
C2_RetryThenSuccess ==
  \A c \in Callers :
    /\ InFlight(c) => result[c] = Pending
    /\ (pc[c] = "dispatching" /\ attempt[c] > 1) => now >= wakeAt[c]
    /\ (pc[c] = "done" /\ dispatches[c] > 0 /\ lastOutcome[c].ok
          /\ transient[c]) =>
         /\ result[c] = Resolved(lastOutcome[c].data)
         /\ dispatches[c] <= maxRetries + 1
         /\ delays[c] = ExpectedDelays(dispatches[c] - 1)

\* maxRetries transient failures, then a success
C2_Witness ==
  \E c \in Callers :
    /\ pc[c] = "done"
    /\ transient[c]
    /\ dispatches[c] = maxRetries + 1
    /\ result[c] = Resolved("v1")
    /\ delays[c] = ExpectedDelays(maxRetries)

\* C3: if every dispatch is answered, every call settles, after at most
\* maxRetries + 1 dispatches; when all of them failed with a 5xx, a 429, a
\* time-out or no response it is rejected after exactly maxRetries + 1
\* dispatches with the classified error of the last one.
C3_Terminates ==
  /\ \A c \in Callers : InFlight(c) ~> (pc[c] = "done")
  /\ [](\A c \in Callers :
          /\ dispatches[c] <= maxRetries + 1
          /\ (pc[c] = "done" /\ Failed(c) /\ transient[c]) =>
               /\ dispatches[c] = maxRetries + 1
               /\ result[c] = Rejected(HandleApiError(lastOutcome[c].error)))

\* a call rejected after maxRetries + 1 failed dispatches
C3_Witness ==
  \E c \in Callers :
    /\ pc[c] = "done"
    /\ Failed(c)
    /\ transient[c]
    /\ dispatches[c] = maxRetries + 1
    /\ result[c].status = "rejected"

\* C4: a call the limiter rejects is rejected at once with the local
\* RateLimitError: no dispatch, no cache read, no cache write, no retry.
C4_RejectedFailsFast ==
  \A c \in Callers :
    ~allowed[c] =>
      /\ pc[c] = "done"
      /\ result[c] = Rejected(LocalRateLimitError(config[c]))
      /\ dispatches[c] = 0
      /\ attempt[c] = 0
      /\ delays[c] = <<>>
      /\ cacheGets[c] = 0
      /\ cacheSets[c] = 0

\* a GET rejected by the limiter while the cache holds its key
C4_Witness ==
  \E c \in Callers :
    /\ ~allowed[c]
    /\ IsGet(config[c])
    /\ GenerateKey(config[c]) \in DOMAIN cache

\* C5: for every key, the admissions whose timestamp lies in the window
\* (now - windowMs, now] never number more than maxRequests, however the
\* requests in flight interleave.  Every interval of window length is this
\* window at the instant it ends.
C5_WindowBudget ==
  \A key \in DOMAIN admitted : Len(admitted[key]) <= maxRequests

\* the budget of a key is used up while two requests are in flight
C5_Witness ==
  /\ \A c \in Callers : pc[c] = "dispatching"
  /\ \E key \in DOMAIN admitted : Len(admitted[key]) = maxRequests

\* the entry held for key is younger than its ttl
HoldsUnexpired(key) ==
  key \in DOMAIN cache /\ now - cache[key].timestamp < cache[key].ttl
\* caller c takes the step that starts a call
Starts(c) == pc[c] = "idle" /\ pc'[c] # "idle"

\* C7: an admitted GET that finds an unexpired entry under its cache key
\* resolves with the stored value and dispatches nothing.
C7_HitServedFromCache ==
  [][\A c \in Callers :
       (Starts(c) /\ allowed'[c] /\ IsGet(config'[c])
          /\ HoldsUnexpired(GenerateKey(config'[c]))) =>
         /\ pc'[c] = "done"
         /\ result'[c] = Resolved(cache[GenerateKey(config'[c])].data)
         /\ dispatches'[c] = 0]_vars

\* a GET served from an entry stored earlier
C7_Witness ==
  \E c \in Callers :
    /\ pc[c] = "done"
    /\ hitAge[c] > 0
    /\ dispatches[c] = 0
    /\ result[c] = Resolved("v2")

\* C8: a GET that succeeds through a dispatch with a non-empty body leaves
\* its result stored under its cache key, stamped now, with the configured
\* ttl (defaultTtl, config.cache_ttl_seconds); an identical GET is
\* served from it while the configured ttl has not elapsed, and is
\* dispatched once it has.
C8_StoredWithConfiguredTtl ==
  /\ [][\A c \in Callers :
          /\ (pc[c] = "dispatching" /\ pc'[c] = "done"
                /\ result'[c].status = "resolved" /\ IsGet(config[c])
                /\ Truthy(result'[c].value)) =>
               /\ GenerateKey(config[c]) \in DOMAIN cache'
               /\ cache'[GenerateKey(config[c])] =
                    [data |-> result'[c].value, timestamp |-> now,
                     ttl |-> defaultTtl]
          /\ (Starts(c) /\ allowed'[c] /\ IsGet(config'[c])
                /\ GenerateKey(config'[c]) \in DOMAIN cache
                /\ now - cache[GenerateKey(config'[c])].timestamp < defaultTtl) =>
               /\ result'[c] = Resolved(cache[GenerateKey(config'[c])].data)
               /\ dispatches'[c] = 0]_vars
  /\ [](\A c \in Callers : hitAge[c] <= defaultTtl)

\* caller c takes a step of a call whose method is not GET
NonGetStep(c) ==
  /\ pc'[c] # pc[c]
  /\ ~IsGet(IF pc[c] = "idle" THEN config'[c] ELSE config[c])

\* C9: a call whose method is not GET never reads or writes the cache: its
\* steps leave the entries and their order as they are, and when admitted it
\* dispatches.
C9_NonGetBypassesCache ==
  [][\A c \in Callers :
       NonGetStep(c) =>
         /\ UNCHANGED <<cache, accessOrder>>
         /\ cacheGets'[c] = 0
         /\ cacheSets'[c] = 0
         /\ (Starts(c) /\ allowed'[c]) =>
              (pc'[c] = "dispatching" /\ dispatches'[c] = 1)]_vars

\* a POST resolved through a dispatch while the cache holds entries
C9_Witness ==
  \E c \in Callers :
    /\ pc[c] = "done"
    /\ config[c].method = "POST"
    /\ result[c] = Resolved("v1")
    /\ dispatches[c] >= 1
    /\ DOMAIN cache # {}

(***************************************************************************)
(* Properties of the limiter driven directly                               *)
(***************************************************************************)
\* the entries of a record that are younger than one window at time t
InWindow(entries, t) == SelectSeq(entries, LAMBDA e : e.timestamp > t - windowMs)

\* C6: isAllowed(key) answers true exactly when fewer than maxRequests
\* earlier admissions of key are newer than now - windowMs; an admitted call
\* adds one entry, stamped now, to the entries of the window; a rejected call
\* leaves the record as it was.
C6_AdmitExactly ==
  lastCall.op = "isAllowed" =>
    /\ lastCall.ret <=> (lastCall.earlier < maxRequests)
    /\ lastCall.ret =>
         lastCall.after = Append(InWindow(lastCall.before, lastCall.at),
                                 [timestamp |-> lastCall.at, count |-> 1])
    /\ ~lastCall.ret => lastCall.after = lastCall.before

\* a key whose budget was used up is admitted again once the window elapsed
C6_Witness ==
  /\ lastCall.op = "isAllowed"
  /\ lastCall.ret
  /\ lastCall.earlier = 0
  /\ Len(lastCall.before) = maxRequests

(***************************************************************************)
(* Properties of the cache driven directly                                 *)
(***************************************************************************)
\* C10: get(k) right after set(k, v, ttl) with ttl > 0 returns v; a get(k)
\* made when ttl or more has elapsed since the set returns absent and
\* leaves no entry for k.  (set stores what it was given, stamped now.)
C10_SetThenGet ==
  /\ (lastCall.op = "set" /\ lastCall.ttl # <<>> /\ lastCall.ttl[1] > 0) =>
       /\ lastCall.stored
       /\ lastCall.entry = [data |-> lastCall.value, timestamp |-> lastCall.at,
                            ttl |-> lastCall.ttl[1]]
  /\ (lastCall.op = "get" /\ lastCall.had /\ lastCall.entry.ttl > 0) =>
       /\ (lastCall.afterSet /\ lastCall.entry.timestamp = lastCall.at) =>
            lastCall.ret = lastCall.entry.data
       /\ (lastCall.at - lastCall.entry.timestamp >= lastCall.entry.ttl) =>
            (lastCall.ret = Null /\ ~lastCall.stored)

C13_NonPositiveTtlExpired ==
  (lastCall.op = "get" /\ "afterSet" \in DOMAIN lastCall /\ lastCall.afterSet
     /\ lastCall.setTtl # <<>> /\ lastCall.setTtl[1] <= 0) =>
    lastCall.ret = Null

(***************************************************************************)
(* Properties of AuthService                                               *)
(***************************************************************************)
\* C14: in every reachable state isAuthenticated() is true if and only if a
\* token is installed in the client; in particular right after setToken and
\* with the token installed from the configuration at start-up.
C14_AuthenticatedIffToken ==
  IsAuthenticated(AuthState) <=> currentToken # Null

\* C15: when the refresh call issued by the scheduled refresh fails, the
\* token is cleared from the client, isAuthenticated() is false afterwards
\* and no refresh timer is armed.
C15_FailedScheduledRefreshClears ==
  [][(/\ op # NoOp /\ op' = NoOp
      /\ op.name = "refreshToken" /\ op.scheduled
      /\ result["c1"].status = "rejected")
       => (/\ currentToken' = Null
           /\ currentUser' = Null
           /\ TokenCacheKey \notin DOMAIN cache'
           /\ tokenRefreshTimer' = Null
           /\ pendingTimers' = {})]_vars

\* a scheduled refresh of an authenticated service has just failed
C15_Witness ==
  /\ op = NoOp
  /\ lastOp.name = "refreshToken" /\ lastOp.scheduled /\ ~lastOp.ok
  /\ lastOp.sent
  /\ lastOp.tokenBefore # Null /\ lastOp.userBefore # Null
  /\ currentToken = Null /\ pendingTimers = {}

\* C16: when the scheduled refresh timer has fired and the refresh call
\* succeeds, the token is replaced by the one returned, the service is
\* authenticated, and exactly one new refresh timer is armed.
C16_ScheduledRefreshRearms ==
  [][(/\ op # NoOp /\ op' = NoOp
      /\ op.name = "refreshToken" /\ op.scheduled
      /\ result["c1"].status = "resolved")
       => (/\ currentToken' = result["c1"].value.access_token
           /\ currentUser' = result["c1"].value.user
           /\ currentUser' # Null
           /\ Cardinality(pendingTimers') = 1
           /\ pendingTimers' \cap pendingTimers = {}
           /\ pendingTimers' = {tokenRefreshTimer'}
           /\ tokenRefreshTimer' # tokenRefreshTimer)]_vars

\* a scheduled refresh of an authenticated service has just succeeded and
\* installed another token
C16_Witness ==
  /\ op = NoOp
  /\ lastOp.name = "refreshToken" /\ lastOp.scheduled /\ lastOp.ok
  /\ lastOp.userBefore # Null
  /\ lastOp.tokenBefore \notin {Null, currentToken}
  /\ lastOp.timersBefore = {}
  /\ Cardinality(pendingTimers) = 1

\* C17: whenever a new token is installed by a successful authenticate or by
\* setToken, it replaces the previous one and a refresh timer is armed for
\* it.
C17_InstallArmsRefresh ==
  [][(/\ lastOp' # lastOp
      /\ lastOp'.name \in {"authenticate", "setToken"}
      /\ lastOp'.ok)
       => (/\ currentToken' # Null
           /\ tokenRefreshTimer' # Null
           /\ tokenRefreshTimer' \in pendingTimers')]_vars

\* C18: isAuthenticated() changes from false to true only at the completion
\* of a successful authenticate or of a successful refresh; no other
\* operation makes it true.
C18_LoginOnlyByAuthenticateOrRefresh ==
  [][(~IsAuthenticated(AuthState) /\ currentUser' # Null)
       => (/\ op # NoOp /\ op' = NoOp
           /\ op.name \in {"authenticate", "refreshToken"}
           /\ result["c1"].status = "resolved")]_vars

\* the error of an authenticate rejected under the key of its identity
IsTooManyAttempts(e) ==
  /\ e.class = "AuthenticationError"
  /\ \E n \in 0..windowMs :
       e.message = "Too many login attempts. Try again in " \o ToString(n)
                     \o " seconds."

\* C19 as stated: an authenticate call is rejected locally, without a login
\* request, only when its own identity has had limit calls admitted within
\* the window.
C19_RejectedOnlyForOwnIdentity ==
  (lastOp.name = "authenticate" /\ ~lastOp.ok /\ ~lastOp.sent)
    => lastOp.identityCount >= maxRequests

\* C19: authenticate consults the limiter under the key of the identity
\* before any network call: once limit calls for the identity were admitted
\* within the window, a further call for it fails with AuthenticationError
\* and sends no login request; a call for another identity is not rejected
\* under the identity key because of them, and is rejected locally only
\* when the limiter key of POST /auth/login, shared by all identities, has
\* admitted limit calls within the window.
C19_LoginRateLimited ==
  lastOp.name = "authenticate" =>
    /\ lastOp.identityCount >= maxRequests
         => ~lastOp.ok /\ ~lastOp.sent /\ IsTooManyAttempts(lastOp.error)
    /\ ~lastOp.ok => lastOp.error.class = "AuthenticationError"
    /\ IsTooManyAttempts(lastOp.error)
         => lastOp.identityCount >= maxRequests
    /\ (~lastOp.ok /\ ~lastOp.sent)
         => \/ lastOp.identityCount >= maxRequests
            \/ lastOp.endpointCount >= maxRequests

\* identity b, never admitted before, rejected without a login request after
\* the calls of identity a used up the key of POST /auth/login
C19_Witness ==
  /\ op = NoOp
  /\ lastOp.name = "authenticate" /\ lastOp.email = "b"
  /\ ~lastOp.ok /\ ~lastOp.sent
  /\ lastOp.identityCount = 0
  /\ lastOp.endpointCount >= maxRequests
  /\ Len(EntriesOf(admitted, LoginRateLimitKey("a"))) >= maxRequests

(***************************************************************************)
(* Properties of the tools                                                 *)
(***************************************************************************)
\* C20: after a create_link tool call succeeds, no result of a GET on the
\* links resource, whatever its query string, is left live in the cache, so
\* that the next get_links call dispatches to the upstream.
C20_CreateInvalidatesLinks ==
  [][(/\ op # NoOp /\ op' = NoOp
      /\ op.name = "create_link"
      /\ result["c1"].status = "resolved")
       => \A query \in QueryStrings :
            LET key == GenerateKey(GetLinksConfig(query))
            IN  key \in DOMAIN cache' => IsExpired(cache'[key], now')]_vars

(***************************************************************************)
(* Properties of ApiClient.healthCheck                                     *)
(***************************************************************************)
\* C21: every call of healthCheck() dispatches a probe to the upstream and
\* returns true if and only if that probe succeeded.
C21_HealthCheckProbes ==
  lastOp.name = "healthCheck" => lastOp.sent

(***************************************************************************)
(* Properties of the error classification                                  *)
(***************************************************************************)
\* the kind the table gives to a transport failure
TableKind(error) ==
  IF HasResponse(error)
  THEN LET status == error.response.status
       IN  CASE status = 401 -> "AuthenticationError"
             [] status = 429 -> "RateLimited"
             [] status >= 400 /\ status <= 499 -> "ValidationError"
             [] OTHER -> "ServerError"
  ELSE IF error.code = "ECONNABORTED" THEN "Timeout"
  ELSE "NetworkUnavailable"

\* the kind of an error object of the code: its class, and for the base
\* class what its status code and message tell
KindOf(e) ==
  CASE e.class = "AuthenticationError" -> "AuthenticationError"
    [] e.class = "ValidationError" -> "ValidationError"
    [] e.class = "RateLimitError" -> "RateLimited"
    [] e.class = "LinkLibraryError" /\ e.message = "Request timeout"
         -> "Timeout"
    [] e.class = "LinkLibraryError" /\ e.message = "Service unavailable"
         -> "NetworkUnavailable"
    [] e.class = "LinkLibraryError" /\ e.message # "Unknown error"
         /\ e.statusCode >= 500 /\ e.statusCode <= 599 -> "ServerError"
    [] OTHER -> "UnknownError"

\* C22: the classification matches the table: 401 gives
\* AuthenticationError, every other status in 400..499 except 429 gives
\* ValidationError, 429 gives RateLimited, every status in 500..599 gives
\* ServerError, a local time-out gives Timeout, no response gives
\* NetworkUnavailable.
C22_ClassificationTable ==
  lastCall.op = "handleApiError"
    => KindOf(lastCall.ret) = TableKind(lastCall.error)

(***************************************************************************)
(* Properties of RateLimiter.getInfo and RateLimiter.reset                 *)
(***************************************************************************)
\* C23: info(key).remaining equals max(0, limit - the number of admissions
\* of key inside the current window); right after a rejected call the
\* remaining of its key is 0, and a call is rejected exactly when limit
\* admissions of its key are inside the window.
C23_RemainingIsBudgetLeft ==
  /\ lastCall.op = "getInfo" =>
       /\ lastCall.ret.remaining + Len(lastCall.admittedAt) = maxRequests
       /\ lastCall.ret.remaining >= 0
       /\ lastCall.ret.limit = maxRequests
  /\ lastCall.op = "isAllowed" =>
       /\ ~lastCall.ret <=> lastCall.earlier = maxRequests
       /\ ~lastCall.ret => GetInfo(requests, lastCall.key, now).remaining = 0

\* info on a key whose budget is used up, while an older record of the key
\* that left the window is still stored
C23_Witness ==
  /\ lastCall.op = "getInfo"
  /\ lastCall.ret.remaining = 0
  /\ Len(lastCall.admittedAt) = maxRequests
  /\ Len(EntriesOf(requests, lastCall.key)) = maxRequests
  /\ \E k \in DOMAIN requests :
       \E i \in 1..Len(requests[k]) :
         requests[k][i].timestamp <= now - windowMs

\* C24: info(key).resetTime is the time of the oldest admission of key still
\* inside the window plus the window size, it is now when no admission of
\* key is inside the window, and it is never earlier than now.
C24_ResetTimeOfOldestInWindow ==
  lastCall.op = "getInfo" =>
    /\ lastCall.ret.resetTime =
         IF lastCall.admittedAt = <<>> THEN lastCall.at
         ELSE Head(lastCall.admittedAt) + windowMs
    /\ lastCall.ret.resetTime >= lastCall.at

\* the operations on one key
OnKey(call) == call.op \in {"isAllowed", "getInfo", "reset"}

\* C26: isAllowed(k), reset(k) and getInfo(k) leave the record of every
\* other key as it was, so that the answer isAllowed would give for another
\* key is the same after the operation as before it.
C26_KeysIndependent ==
  [][OnKey(lastCall') =>
       \A other \in LimiterKeys \ {lastCall'.key} :
         /\ (other \in DOMAIN requests') = (other \in DOMAIN requests)
         /\ EntriesOf(requests', other) = EntriesOf(requests, other)
         /\ IsAllowed(requests', other, now').allowed
              = IsAllowed(requests, other, now).allowed]_vars

\* a reset of one key has left in place the record of the other key, whose
\* budget is used up
C26_Witness ==
  \E k \in LimiterKeys :
    /\ lastCall.op = "reset" /\ lastCall.key # k
    /\ lastCall.key \notin DOMAIN requests
    /\ Len(EntriesOf(admitted, k)) = maxRequests
    /\ ~IsAllowed(requests, k, now).allowed

(***************************************************************************)
(* Properties of concurrent fills of the cache                             *)
(***************************************************************************)
\* how often key occurs in the recency order
Occurrences(order, key) ==
  Cardinality({i \in 1..Len(order) : order[i] = key})
\* caller c takes the step that stores the response of its GET
Fills(c) ==
  /\ pc[c] = "dispatching" /\ pc'[c] = "done"
  /\ IsGet(config[c])
  /\ result'[c].status = "resolved" /\ Truthy(result'[c].value)

\* C25: however the fills of one key by requests in flight interleave, after
\* each of them the cache holds one entry for the key, with the value of the
\* set executed last, and the recency order holds the key exactly once, as
\* it holds every stored key.
C25_SetLastWriteWins ==
  [][\A c \in Callers :
       Fills(c) =>
         LET key == GenerateKey(config[c])
         IN  /\ key \in DOMAIN cache'
             /\ cache'[key] = [data |-> result'[c].value, timestamp |-> now,
                               ttl |-> ApiCacheTtl]
             /\ Occurrences(accessOrder', key) = 1
             /\ accessOrder'[Len(accessOrder')] = key
             /\ \A k \in DOMAIN cache' : Occurrences(accessOrder', k) = 1
             /\ Len(accessOrder') = Cardinality(DOMAIN cache')]_vars

\* two requests of one key were in flight together, both were answered,
\* with different bodies, and both filled the cache
C25_Witness ==
  /\ \A c \in Callers :
       /\ pc[c] = "done" /\ cacheSets[c] = 1 /\ dispatches[c] = 1
       /\ config[c] = config["c1"]
  /\ result["c1"].value # result["c2"].value
  /\ cache[GenerateKey(config["c1"])].data \in
       {result[c].value : c \in Callers}
  /\ Occurrences(accessOrder, GenerateKey(config["c1"])) = 1

(***************************************************************************)
(* Properties of CacheUtils.invalidatePattern                              *)
(***************************************************************************)
\* C27: invalidatePattern(pattern) deletes every stored key that contains
\* pattern as a substring and no other key, and returns the number of keys
\* it deleted; the entries under the other keys keep their value and their
\* relative order of recency.
C27_InvalidateBySubstring ==
  lastCall.op = "invalidatePattern" =>
    LET was == lastCall.before
        kept == {k \in DOMAIN was.cache : ~Includes(k, lastCall.pattern)}
    IN  /\ DOMAIN cache = kept
        /\ lastCall.ret = Cardinality(DOMAIN was.cache \ kept)
        /\ \A k \in kept : cache[k] = was.cache[k]
        /\ accessOrder = SelectSeq(was.accessOrder, LAMBDA k : k \in kept)

\* a pattern that occurs inside one stored key and not at its start, and in
\* no other stored key, has removed that key and kept the other
C27_Witness ==
  /\ lastCall.op = "invalidatePattern"
  /\ lastCall.pattern = "1"
  /\ lastCall.ret = 1
  /\ Cardinality(DOMAIN lastCall.before.cache) = maxSize
  /\ Cardinality(DOMAIN cache) = maxSize - 1

(***************************************************************************)
(* Stopping the background work                                            *)
(***************************************************************************)
\* C28: after clear() or destroy() of the cache, and of the limiter, no
\* sweep interval is armed, and after clearToken() no refresh timer is
\* armed; a stopped interval is never armed again by a later call; and
\* once clearToken has left no refresh timer armed, none is armed again
\* unless setupTokenRefresh is called.
C28_StoppedStaysStopped ==
  [][/\ lastCall'.op \in {"cache.clear", "cache.destroy"}
          => ~cacheCleanupInterval'
     /\ lastCall'.op \in {"limiter.clear", "limiter.destroy"}
          => ~limiterCleanupInterval'
     /\ ~cacheCleanupInterval => ~cacheCleanupInterval'
     /\ ~limiterCleanupInterval => ~limiterCleanupInterval'
     /\ lastOp'.name = "clearToken" /\ lastOp # lastOp'
          => pendingTimers' = {} /\ tokenRefreshTimer' = Null
     /\ lastOp.name = "clearToken" /\ pendingTimers = {}
          => pendingTimers' = {} \/ lastOp'.name = "setupTokenRefresh"]_vars

\* the same with clearToken called only between two operations
C28_StoppedWhenIdle ==
  [][/\ lastCall'.op \in {"cache.clear", "cache.destroy"}
          => ~cacheCleanupInterval'
     /\ lastCall'.op \in {"limiter.clear", "limiter.destroy"}
          => ~limiterCleanupInterval'
     /\ ~cacheCleanupInterval => ~cacheCleanupInterval'
     /\ ~limiterCleanupInterval => ~limiterCleanupInterval'
     /\ lastOp'.name = "clearToken" /\ lastOp # lastOp'
          => pendingTimers' = {} /\ tokenRefreshTimer' = Null
     /\ lastOp.name = "clearToken" /\ pendingTimers = {} /\ op = NoOp
          => pendingTimers' = {} \/ lastOp'.name = "setupTokenRefresh"]_vars

\* everything was stopped, clearToken having run during a scheduled
\* refresh, and the refresh armed a timer on completing
C28_RearmedAfterStop ==
  /\ ~cacheCleanupInterval
  /\ ~limiterCleanupInterval
  /\ lastOp.name = "refreshToken"
  /\ lastOp.scheduled
  /\ lastOp.tokenBefore = Null
  /\ pendingTimers # {}

(***************************************************************************)
(* Properties of the tool handler                                          *)
(***************************************************************************)
\* C29: a tool other than authenticate, called while isAuthenticated() is
\* false, completes at once with the error result 'Authentication
\* required', without a request to the API, an access to the cache or an
\* admission counted by the limiter; no such tool has a request in flight
\* while the service is unauthenticated; and every failed tool call ends in
\* an error text result that carries the message of its error.
C29_UnauthenticatedRefused ==
  [][/\ (lastOp' # lastOp /\ lastOp'.name \in GuardedTools
           /\ currentUser = Null)
          => /\ ~lastOp'.ok
             /\ ~lastOp'.sent
             /\ lastOp'.error = AuthenticationRequired
             /\ ErrorResult(lastOp'.error).content[1].text
                  = "Error: Authentication required. Please authenticate first."
             /\ op = NoOp /\ op' = NoOp
             /\ UNCHANGED <<cache, accessOrder, requests, admitted, calls,
                            dispatches, cacheGets, cacheSets, pc>>
     /\ (op' # NoOp /\ op'.name \in GuardedTools) => currentUser' # Null
     /\ (lastOp' # lastOp /\ ~lastOp'.ok
           /\ lastOp'.name \in GuardedTools \cup {"authenticate"})
          => /\ lastOp'.error # NoError
             /\ ErrorResult(lastOp'.error).content[1].type = "text"
             /\ ErrorResult(lastOp'.error).content[1].text
                  = "Error: " \o lastOp'.error.message]_vars

\* search_advanced was refused on a service that holds the configured
\* token and no user, and nothing of the refused call reached the client
C29_Witness ==
  /\ lastOp.name = "search_advanced"
  /\ ~lastOp.ok
  /\ ~lastOp.sent
  /\ lastOp.error = AuthenticationRequired
  /\ currentUser = Null
  /\ currentToken # Null
  /\ calls = 0
  /\ requests = EmptyMap
  /\ op = NoOp
  /\ pc["c1"] = "idle"

(***************************************************************************)
(* Properties of the request interceptor                                   *)
(***************************************************************************)
\* C30: every dispatch attempt of a request, the first and each retry,
\* goes out with the token that is current at that moment as its
\* Authorization header, and with no Authorization header when no token is
\* present then, whatever the attempts before carried.
C30_AttemptCarriesCurrentToken ==
  [][\A c \in Callers :
       /\ Len(carried'[c]) = dispatches'[c]
       /\ dispatches'[c] = dispatches[c] + 1
            => /\ currentToken' = currentToken
               /\ carried'[c][Len(carried'[c])]
                    = IF currentToken = Null THEN NoHeader
                      ELSE "Bearer " \o currentToken]_vars

\* one request went out three times: with the configured token, with the
\* token that replaced it during the first backoff, and with no header
\* after the token was cleared during the second
C30_Witness ==
  /\ carried["c1"] = <<"Bearer t0", "Bearer t3", NoHeader>>
  /\ dispatches["c1"] = 3
  /\ currentToken = Null

(***************************************************************************)
(* The sweep of the cache                                                  *)
(***************************************************************************)
\* C31: every get returns the same value from the cache, which is swept at
\* arbitrary moments, as from its twin, which received the same set, get
\* and delete calls at the same times and is never swept.
C31_SweepNotObservable ==
  lastCall.op = "get" => lastCall.ret = lastCall.twinRet

(***************************************************************************)
(* Properties of the cache key                                             *)
(***************************************************************************)
\* the name-to-value mapping of a params object
MappingOf(params) == {params.pairs[i] : i \in 1..Len(params.pairs)}
SameMapping(a, b) ==
  /\ a.params.defined = b.params.defined
  /\ MappingOf(a.params) = MappingOf(b.params)

\* C32: two GET descriptors with the same method, the same path and the
\* same mapping of parameter names to values have the same cache key, in
\* whatever order the parameters were supplied, and two descriptors that
\* differ in the path or in the mapping have different keys.
C32_KeyOfMethodPathParams ==
  lastCall.op = "generateKey"
    => LET a == lastCall.a
           b == lastCall.b
       IN  (lastCall.keyA = lastCall.keyB)
             <=> (a.method = b.method /\ a.url = b.url /\ SameMapping(a, b))

\* the keys of two descriptors with the same path and the same sequence of
\* parameters are equal, and any difference in the path or in a value
\* gives different keys
C32_KeyOfMethodPathSequence ==
  lastCall.op = "generateKey"
    => ((lastCall.keyA = lastCall.keyB) <=> (lastCall.a = lastCall.b))

(***************************************************************************)
(* Properties of the credential                                            *)
(***************************************************************************)
\* the upstream rejected the credential: the error class of a 401
CredentialRejected(error) == error.class = "AuthenticationError"

\* C33: a token that is present becomes absent only in a call of
\* clearToken, at the end of logout, after a failed refresh, or when the
\* upstream rejects the credential during getCurrentUser or validateToken;
\* a getCurrentUser or validateToken that fails for another reason leaves
\* the token present.
C33_TokenLeavesOnlyWhenInvalid ==
  [][(currentToken # Null /\ currentToken' = Null)
       => \/ lastOp'.name \in {"clearToken", "logout"}
          \/ lastOp'.name = "refreshToken" /\ ~lastOp'.ok
          \/ /\ lastOp'.name \in {"getCurrentUser", "validateToken"}
             /\ ~lastOp'.ok
             /\ CredentialRejected(lastOp'.error)]_vars

\* the token leaves only in one of these calls, whatever made it fail
C33_TokenLeavesOnlyInTheseCalls ==
  [][(currentToken # Null /\ currentToken' = Null)
       => \/ lastOp'.name \in {"clearToken", "logout"}
          \/ /\ lastOp'.name \in {"refreshToken", "getCurrentUser",
                                  "validateToken"}
             /\ ~lastOp'.ok]_vars

\* no token in the client, no user, no refresh timer armed
Unauthenticated ==
  /\ currentToken = Null
  /\ currentUser = Null
  /\ pendingTimers = {}

\* C34: once clearToken or logout has completed and until authenticate,
\* setToken or setupTokenRefresh is called, the service holds no token, no
\* user and no armed refresh timer, also when a scheduled refresh or a
\* getCurrentUser that was in flight completes successfully afterwards.
C34_ClearedStaysCleared ==
  [][(lastOp.name \in {"clearToken", "logout"} /\ Unauthenticated)
       => \/ Unauthenticated'
          \/ lastOp'.name \in {"authenticate", "setToken",
                               "setupTokenRefresh"}]_vars

\* the same for the calls that start after the clear: only what was in
\* flight at the clear undoes it
C34_ClearedWhenIdle ==
  [][(lastOp.name \in {"clearToken", "logout"} /\ Unauthenticated
        /\ op = NoOp)
       => \/ Unauthenticated'
          \/ lastOp'.name \in {"authenticate", "setToken",
                               "setupTokenRefresh"}]_vars

\* a getCurrentUser overtaken by clearToken has set the user again
C34_UserRestored ==
  /\ lastOp.name = "getCurrentUser"
  /\ lastOp.ok
  /\ lastOp.userBefore = Null
  /\ currentUser # Null
  /\ currentToken = Null

\* a scheduled refresh overtaken by clearToken has installed a token and a
\* user and armed the next refresh
C34_RefreshRestored ==
  /\ lastOp.name = "refreshToken"
  /\ lastOp.scheduled
  /\ lastOp.ok
  /\ lastOp.userBefore = Null
  /\ currentUser # Null
  /\ currentToken # Null
  /\ pendingTimers # {}

(***************************************************************************)
(* Properties of the cache across credentials                              *)
(***************************************************************************)
\* C35: a GET request answered from the cache returns a value that was
\* fetched under the credential the client holds at the request: after the
\* token was cleared or replaced, no value fetched under the token before
\* is returned.
C35_CacheNotSharedAcrossCredentials ==
  [][\A c \in Callers :
       (pc[c] = "idle" /\ pc'[c] = "done" /\ dispatches'[c] = 0
          /\ result'[c].status = "resolved")
         => /\ currentToken # Null
            /\ result'[c].value = DataOf("Bearer " \o currentToken)]_vars

\* a request answered from the cache returns what some credential fetched
C35_CacheHoldsFetchedValues ==
  [][\A c \in Callers :
       (pc[c] = "idle" /\ pc'[c] = "done" /\ dispatches'[c] = 0
          /\ result'[c].status = "resolved")
         => \E token \in ConfigTokens \cup CarryTokens :
              /\ token # Null
              /\ result'[c].value = DataOf("Bearer " \o token)]_vars

(***************************************************************************)
(* Properties of the cache under invalidation                              *)
(***************************************************************************)
\* C36: after an invalidation (delete or invalidatePattern) and as long as
\* no request has started since, the cache holds no entry under an
\* invalidated key: the response of a GET that was dispatched before the
\* invalidation is not stored after it.
C36_NoStoreAfterInvalidation ==
  (lastCall.op = "invalidate" /\ lastCall.calls = calls)
    => \A key \in lastCall.keys : key \notin DOMAIN cache

(***************************************************************************)
(* Properties of the recency list                                          *)
(***************************************************************************)
\* C37: after any sequence of set, get, has, delete, clear and sweep, with
\* any strings as keys, accessOrder holds exactly the keys of the entry
\* map, each once.
C37_AccessOrderMatchesEntries ==
  /\ {accessOrder[i] : i \in 1..Len(accessOrder)} = DOMAIN cache
  /\ Len(accessOrder) = Cardinality(DOMAIN cache)

\* the same for the keys that are not the empty string, and at most one
\* entry beyond the capacity
C37_AccessOrderMatchesNamedEntries ==
  /\ {accessOrder[i] : i \in 1..Len(accessOrder)} \ {""} = DOMAIN cache \ {""}
  /\ Len(accessOrder) <= Cardinality(DOMAIN cache)
  /\ Cardinality(DOMAIN cache) <= maxSize + 1

(***************************************************************************)
(* Properties of the admission of a request                                *)
(***************************************************************************)
\* the limiter records of every key but one are the same after the step
OtherKeysUntouched(key) ==
  \A k \in (DOMAIN requests \cup DOMAIN requests') \ {key} :
    EntriesOf(requests', k) = EntriesOf(requests, k)

\* C38: a call of request is admitted once, under the key
\* api:<method>:<url>, before the cache is looked up: when it is admitted,
\* be it served from the cache or dispatched, one record of the present
\* time is added to the live records of that key and to no other key; when
\* it is rejected nothing is added and the cache is not read; and a retry
\* attempt, a response and a return leave the records of the limiter as
\* they are.
C38_OneAdmissionPerRequest ==
  [][\A c \in Callers :
       /\ (pc[c] = "idle" /\ pc'[c] # "idle")
            => LET key == RateLimitKey(config'[c])
                   live == FilterExpired(EntriesOf(requests, key),
                                         now - windowMs)
               IN  /\ key = "api:" \o config'[c].method \o ":"
                              \o config'[c].url
                   /\ OtherKeysUntouched(key)
                   /\ allowed'[c]
                        => EntriesOf(requests', key)
                             = Append(live, [timestamp |-> now, count |-> 1])
                   /\ ~allowed'[c]
                        => /\ requests' = requests
                           /\ cacheGets'[c] = 0
                           /\ cache' = cache
                           /\ pc'[c] = "done"
       /\ (pc[c] # "idle" /\ (pc'[c] # pc[c] \/ dispatches'[c] # dispatches[c]))
            => requests' = requests]_vars

\* a GET was served from the cache and the key of the request holds two
\* live records: that of the request that fetched the value and its own
C38_Witness ==
  /\ pc["c1"] = "done"
  /\ hitAge["c1"] >= 0
  /\ dispatches["c1"] = 0
  /\ result["c1"].status = "resolved"
  /\ Len(EntriesOf(requests, RateLimitKey(config["c1"]))) = 2
  /\ EntriesOf(requests, RateLimitKey(config["c1"]))[2].timestamp = now

\* a request was dispatched three times and its key holds one record
C38_RetriesFree ==
  /\ pc["c1"] = "dispatching"
  /\ dispatches["c1"] = 3
  /\ Len(EntriesOf(requests, RateLimitKey(config["c1"]))) = 1

(***************************************************************************)
(* Properties of the cache after clearToken and logout                     *)
(***************************************************************************)
\* a step on which clearToken ran: called directly or at the end of logout
Clears == lastOp' # lastOp /\ lastOp'.name \in {"clearToken", "logout"}

\* C39: after clearToken() or logout() the cache holds neither the entry
\* 'auth:token' nor the entry 'auth:user:<id>' of the user who was signed
\* in before the call.
C39_AuthEntriesRemoved ==
  [][Clears =>
       /\ TokenCacheKey \notin DOMAIN cache'
       /\ currentUser # Null => UserCacheKey(currentUser) \notin DOMAIN cache']_vars

\* after clearToken() or logout() the cache holds no entry 'auth:token'
C39_TokenEntryRemoved ==
  [][Clears => TokenCacheKey \notin DOMAIN cache']_vars

(***************************************************************************)
(* Properties of a failed authenticate                                     *)
(***************************************************************************)
\* a step on which a call of authenticate ended: it threw when ok is false
AuthenticateEnds ==
  /\ lastOp' # lastOp
  /\ lastOp'.name = "authenticate"
\* a step of a call of authenticate: its start, or a step of its request
AuthenticateSteps ==
  \/ op.name = "authenticate"
  \/ op'.name = "authenticate"
  \/ AuthenticateEnds

\* C40: a call of authenticate that fails, for credentials that are
\* missing, for a refusal of the limiter under the key of the identity or
\* for a rejection by the upstream, throws an AuthenticationError, and no
\* step of it changes the token installed before, the current user or the
\* refresh timer.
C40_FailedAuthenticateChangesNothing ==
  [][/\ (AuthenticateEnds /\ ~lastOp'.ok)
          => lastOp'.error.class = "AuthenticationError"
     /\ (AuthenticateSteps /\ ~(AuthenticateEnds /\ lastOp'.ok))
          => UNCHANGED <<currentToken, currentUser, tokenRefreshTimer,
                         pendingTimers>>]_vars

\* a login rejected by the upstream on a service that holds the token and
\* the user of an earlier login and an armed refresh
C40_Witness ==
  /\ lastOp.name = "authenticate"
  /\ ~lastOp.ok
  /\ lastOp.sent
  /\ lastOp.error = AuthenticationError("Authentication failed")
  /\ currentToken = "t1"
  /\ currentUser = UserOf("a")
  /\ tokenRefreshTimer # Null
  /\ tokenRefreshTimer \in pendingTimers

\* a login refused by the limiter on a service that holds a token and a user
C40_RefusedLocally ==
  /\ lastOp.name = "authenticate"
  /\ ~lastOp.ok
  /\ ~lastOp.sent
  /\ lastOp.error # MissingCredentials
  /\ currentToken = "t1"
  /\ currentUser = UserOf("a")

\* a login without a password on a service that holds a token and a user
C40_CredentialsMissing ==
  /\ lastOp.name = "authenticate"
  /\ lastOp.error = MissingCredentials
  /\ currentToken = "t1"
  /\ currentUser = UserOf("a")
  /\ tokenRefreshTimer # Null

====
